---- MODULE Spec2Model ----
(***************************************************************************)
(* A model of the core of local-runtime: the poll(2) reactor with its      *)
(* flag-guarded notifier (src/reactor/unix.rs) and the per-thread timer    *)
(* queue with its Timer future (src/timer.rs).                             *)
(***************************************************************************)
EXTENDS Integers, Sequences, FiniteSets, TLC

VARIABLES
    \* ---- FlagNotifier<N> and the descriptor it wraps
    nkind,        \* the NotifierFd implementation: "EventFd" or "PipeFd"
    is_notified,  \* FlagNotifier::is_notified (AtomicBool)
    unread,       \* eventfd counter / bytes waiting in the pipe
    npc,          \* per notifying thread: position inside notify()
    \* ---- PollReactor<N, T>
    tkind,        \* the Timeout implementation: "PollTimeout" or "TimerFd"
    timerfd,      \* TimerFd state: "disarmed", "armed" or "expired" (readable)
    pollfds,      \* Inner::pollfds, each entry [fd, events, revents]
    wakers,       \* Inner::wakers
    rpc,          \* the reactor thread's position inside wait()
    timeout,      \* wait()'s local `timeout`, <<ms>> between set_timeout and poll
    res,          \* result of the wait() that has just returned: "none", "ok", "err"
    woken,        \* log of the wakers invoked by the current wait(): <<index, waker>>
    \* ---- TimerQueue and Timer (thread-local TIMER_QUEUE)
    now,          \* Instant::now(), in ticks
    current_id,   \* TimerQueue::current_id
    nreg,         \* the number of register() calls made so far
    timers,       \* TimerQueue::timers, a set of [expiry, id, waker, n], where
                  \* n tells which register() call has stored the entry
    call,         \* the call in progress or just returned: next_timeout(), cancel()
                  \* or modify(), of which `before` keeps the entry it found
    fired,        \* the entries whose waker next_timeout() invoked since the last other call
    gone,         \* the entries that cancel() has removed: <<expiry, id, n>>
    tm            \* the Timer futures: [st, expiry, timer_id, reg], where reg
                  \* tells which register() call the Timer has made
VARIABLES
    \* ---- Timeout<F> and the task that awaits it
    tmo,          \* the Timeout, its timer being tm[1]: [st, since, d] and, of
                  \* its last poll, [child, out, order, at]; n counts the polls
                  \* that returned Ready
    xpc,          \* the position of the loop that drives the task
    awake         \* the task is runnable: its waker was invoked since its last poll
VARIABLES
    \* ---- JoinFuture, MergeFutureStream, MergeStream and their children
    comb,         \* the combinator: [kind, pollers, wakers, parent, idx,
                  \* none_count], where pollers is `inflight` of a JoinFuture,
                  \* `futures` of a MergeFutureStream, `streams` of a
                  \* MergeStream, and of the FlagWaker of child i wakers[i] is
                  \* the flag `awoken` and parent[i] the field `waker`
    kids,         \* the children: [avail, left, given]; child i returns Ready at
                  \* its next poll iff avail[i], a stream has left[i] items to
                  \* yield before its end and has yielded given[i]
    obs           \* what was observed: of the last poll of the combinator its
                  \* result [ret, val] and the children it went through (log),
                  \* of each child the result of its last poll (lastres), whether
                  \* its trampoline waker was invoked since that poll began
                  \* (invoked), when it became ready (rtime) and how many of
                  \* its items the combinator yielded, in its order so far or
                  \* not (got, inorder), the values a MergeFutureStream yielded
                  \* (yielded), the child that yielded last, how many values
                  \* in a row up to two, and the other children that were ready
                  \* all the while (row), the polls made (polls), the waker
                  \* of the last poll (cx) and the waker that a trampoline
                  \* waker invoked since then (fwd)
VARIABLES
    \* ---- Async<T> and the side of the reactor it talks to
    asyncs,       \* the adapters: [st, via, todo, fd, owner]; todo holds the fields
                  \* still to be dropped, fd tells whether the descriptor of
                  \* `inner` is open, owner who holds `inner`
    registered,   \* the EventHandles registered with the reactor
    enabled,      \* the events enabled for the next cycle: <<handle, interest, waker>>
    ioret         \* the last poll of an operation: what the operation returned at
                  \* its first attempt, the attempts made, the result of the
                  \* poll, the events it enabled and removed, and whether the
                  \* event of this poll was enabled when it returned
VARIABLES
    \* ---- Timeout::set_timeout on its own
    conv          \* one conversion: [st, duration, ms, ret, value]; duration is
                  \* the argument, ms what PollTimeout::set_timeout returns,
                  \* ret what TimerFd::set_timeout returns and value the
                  \* it_value it hands to timerfd_settime

notifierVars == <<nkind, is_notified, unread, npc>>
reactorVars == <<tkind, timerfd, pollfds, wakers, rpc, timeout, res, woken>>
timerVars == <<now, current_id, nreg, timers, call, fired, gone, tm>>
timeoutVars == <<tmo, xpc, awake>>
combVars == <<comb, kids, obs>>
ioVars == <<asyncs, registered, enabled, ioret>>
convVars == <<conv>>
futVars == <<timeoutVars, combVars, ioVars, convVars>>
vars == <<notifierVars, reactorVars, timerVars, futVars>>

----------------------------------------------------------------------------
(* Bounds *)

\* threads spawned by tests::flag_notifier, each calling notify()
NumCallers == 5
\* threads calling notify() concurrently with the reactor thread
NumThreads == 2
\* registrations made in one wait() cycle
MaxReg == 2
\* the last tick of the clock
MaxTime == 1
\* the largest Id, after which the counter of the queue starts again
IdMax == 2
\* register() calls made directly on a TimerQueue
MaxRegs == 3
\* Timer futures
NumTimers == 3
\* children of a combinator
NumChildren == 2
\* items a child stream yields before it ends
MaxItems == 2
\* Async adapters
NumAdapters == 1
\* whole milliseconds of the durations converted
MaxMillis == 10
\* the longest sleep of a child of a join, in ticks
MaxSleep == 2

Callers == 1..NumCallers
Threads == 1..NumThreads

\* the I/O sources of the program: as in tests::multiple_events, source s
\* is registered as descriptor FdOf(s) with its own waker WakerOf(s)
Sources == {"a", "b"}
FdOf(s) == <<"fd", s>>
WakerOf(s) == <<"waker", s>>
UserFds == {FdOf(s) : s \in Sources}

----------------------------------------------------------------------------
(* NotifierFd: EventFd and PipeFd *)

NotifierKinds == {"EventFd", "PipeFd"}

\* EventFd::notify adds 1 to the counter; PipeFd::notify writes one byte
InnerNotify(kind, n) == n + 1

\* the buffer length both clear() implementations read into
ClearBufLen == 8

\* EventFd::clear reads the counter and resets it to 0; PipeFd::clear reads
\* at most 8 bytes out of the pipe
InnerClear(kind, n) ==
    IF kind = "EventFd" THEN 0
    ELSE IF n > ClearBufLen THEN n - ClearBufLen ELSE 0

\* NotifierFd::register: the descriptor is readable when something is unread
NotifierReadable(n) == n > 0

(* FlagNotifier *)

\* the flag is not consulted: every notify() writes
CompareExchangeAlwaysOk(flag) == TRUE

\* compare_exchange(false, true): Ok exactly when the flag was false
CompareExchangeOk(flag) == flag = FALSE

\* FlagNotifier::notify, first half: the compare_exchange on is_notified
NotifyCAS(t) ==
    /\ npc[t] # "write"
    /\ IF CompareExchangeOk(is_notified)
       THEN /\ is_notified' = TRUE
            /\ npc' = [npc EXCEPT ![t] = "write"]
       ELSE /\ is_notified' = is_notified
            /\ npc' = [npc EXCEPT ![t] = "done"]
    /\ UNCHANGED <<nkind, unread>>
    /\ UNCHANGED reactorVars
    /\ UNCHANGED timerVars
    /\ UNCHANGED futVars

\* FlagNotifier::notify, second half: self.inner.notify()
NotifyWrite(t) ==
    /\ npc[t] = "write"
    /\ unread' = InnerNotify(nkind, unread)
    /\ npc' = [npc EXCEPT ![t] = "done"]
    /\ UNCHANGED <<nkind, is_notified>>
    /\ UNCHANGED reactorVars
    /\ UNCHANGED timerVars
    /\ UNCHANGED futVars

----------------------------------------------------------------------------
(* Interest, PollFlags and poll(2) *)

Interests ==
    { [read |-> TRUE, write |-> FALSE],
      [read |-> FALSE, write |-> TRUE] }

\* impl From<Interest> for PollFlags
PollFlagsFrom(val) ==
    (IF val.read THEN {"IN", "HUP", "ERR", "PRI"} ELSE {})
        \cup (IF val.write THEN {"OUT", "HUP", "ERR"} ELSE {})

\* what the kernel can find on a descriptor at the time poll(2) looks at it
Conds == { {}, {"IN"}, {"OUT"}, {"HUP"}, {"ERR"}, {"PRI"}, {"NVAL"} }

\* poll(2): the requested events that hold, and HUP, ERR, NVAL whether
\* requested or not
Reported(events, cond) == cond \cap (events \cup {"HUP", "ERR", "NVAL"})

\* the flags the dispatch loop of wait() looks for
WakeFlags == {"IN", "OUT", "HUP", "ERR", "PRI"}

PollFd(fd, events) == [fd |-> fd, events |-> events, revents |-> {}]

(* Timeout: PollTimeout and TimerFd *)

TimeoutKinds == {"PollTimeout", "TimerFd"}

I32Max == 2147483647
MillisPerSec == 1000
NanosPerMilli == 1000000

\* u64 and i64 values that are not negative, in three limbs <<h2, h1, lo>> of
\* 2, 31 and 31 bits: the value is h2 * 2^62 + h1 * 2^31 + lo
LimbMax == 2147483647
U64From(n) == <<0, 0, n>>
U64Max == <<3, LimbMax, LimbMax>>
I64Max == <<1, LimbMax, LimbMax>>
U64Leq(a, b) ==
    \/ a[1] < b[1]
    \/ a[1] = b[1] /\ a[2] < b[2]
    \/ a[1] = b[1] /\ a[2] = b[2] /\ a[3] <= b[3]

\* Duration { secs: u64, nanos < 10^9 }, and Option<Duration>: <<>> is None,
\* <<d>> is Some(d)
Duration(secs, nanos) == [secs |-> secs, nanos |-> nanos]
None == <<>>
Some(x) == <<x>>
Durations ==
    {None, Some(Duration(U64From(0), 0)), Some(Duration(U64From(0), 10)),
     Some(Duration(U64From(0), 10 * NanosPerMilli))}

\* Duration::as_millis().try_into().unwrap_or(i32::MAX)
MillisAsI32(d) ==
    LET ms == d.nanos \div NanosPerMilli
    IN  IF \/ d.secs[1] > 0
           \/ d.secs[2] > 0
           \/ d.secs[3] > (I32Max - ms) \div MillisPerSec
        THEN I32Max
        ELSE d.secs[3] * MillisPerSec + ms

\* i32::saturating_add
SaturatingAdd(a, b) == IF a > I32Max - b THEN I32Max ELSE a + b

\* Duration::as_nanos() > 0
NonZero(d) == d.secs # U64From(0) \/ d.nanos > 0

\* PollTimeout::set_timeout
PollSetTimeout(duration) ==
    IF duration = None THEN -1
    ELSE SaturatingAdd(MillisAsI32(duration[1]),
                       IF NonZero(duration[1]) THEN 1 ELSE 0)

\* the nanoseconds of a zero duration are left at zero
TimerFdValueZero(duration) ==
    IF duration = None THEN [tv_sec |-> U64From(0), tv_nsec |-> 0]
    ELSE [tv_sec |-> IF U64Leq(duration[1].secs, I64Max)
                     THEN duration[1].secs ELSE I64Max,
          tv_nsec |-> duration[1].nanos]

\* TimerFd::set_timeout: the it_value handed to timerfd_settime, tv_sec being
\* as_secs().try_into().unwrap_or(i64::MAX) and tv_nsec subsec_nanos().max(1)
TimerFdValue(duration) ==
    IF duration = None THEN [tv_sec |-> U64From(0), tv_nsec |-> 0]
    ELSE [tv_sec |-> IF U64Leq(duration[1].secs, I64Max)
                     THEN duration[1].secs ELSE I64Max,
          tv_nsec |-> IF duration[1].nanos > 1 THEN duration[1].nanos ELSE 1]

\* timerfd_settime: a zero it_value disarms the timer, any other arms it
TimerFdSettime(value) ==
    IF value.tv_sec = U64From(0) /\ value.tv_nsec = 0 THEN "disarmed" ELSE "armed"

\* the durations converted: whole milliseconds up to MaxMillis and the
\* nanoseconds around them, around the second and the millisecond at which
\* the milliseconds leave i32, and the seconds around i32, i64 and u64
SubMillis == {0, 1, 10, NanosPerMilli - 1}
NanosCases ==
    {m * NanosPerMilli + n : m \in 0..MaxMillis, n \in SubMillis}
        \cup {(I32Max % MillisPerSec) * NanosPerMilli,
              ((I32Max % MillisPerSec) + 1) * NanosPerMilli,
              MillisPerSec * NanosPerMilli - 1}
SecsCases ==
    {U64From(0), U64From(1), U64From(I32Max \div MillisPerSec),
     U64From(I32Max \div MillisPerSec + 1), U64From(LimbMax), <<0, 1, 0>>,
     I64Max, <<2, 0, 0>>, U64Max}
ConvDurations ==
    {None} \cup {Some(Duration(secs, nanos)) : secs \in SecsCases, nanos \in NanosCases}

\* PollTimeout::set_timeout(conv.duration)
PollTimeoutSetTimeout ==
    /\ conv.st = "arg"
    /\ conv.ms = <<>>
    /\ conv' = [conv EXCEPT !.ms = <<PollSetTimeout(conv.duration)>>]
    /\ UNCHANGED <<timeoutVars, combVars, ioVars>>
    /\ UNCHANGED timerVars
    /\ UNCHANGED notifierVars
    /\ UNCHANGED reactorVars

\* TimerFd::set_timeout(conv.duration), timerfd_settime succeeding
TimerFdSetTimeout ==
    /\ conv.st = "arg"
    /\ conv.ret = <<>>
    /\ conv' = [conv EXCEPT !.ret = <<-1>>, !.value = <<TimerFdValue(conv.duration)>>]
    /\ UNCHANGED <<timeoutVars, combVars, ioVars>>
    /\ UNCHANGED timerVars
    /\ UNCHANGED notifierVars
    /\ UNCHANGED reactorVars

(* PollReactor *)

\* the guard forgets the wakers
InnerGuardDropPollfdsOnly ==
    /\ pollfds' = <<>>
    /\ wakers' = wakers

\* InnerGuard::drop
InnerGuardDrop ==
    /\ pollfds' = <<>>
    /\ wakers' = <<>>

\* PollReactor::register
Register(fd, interest, waker) ==
    /\ rpc = "idle"
    /\ Len(wakers) < MaxReg
    /\ pollfds' = Append(pollfds, PollFd(fd, PollFlagsFrom(interest)))
    /\ wakers' = Append(wakers, waker)
    /\ res' = "none"
    /\ UNCHANGED <<tkind, timerfd, rpc, timeout, woken>>
    /\ UNCHANGED notifierVars
    /\ UNCHANGED timerVars
    /\ UNCHANGED futVars

\* the entries wait() appends: NotifierFd::register, then Timeout::register
OwnEntries ==
    <<PollFd("notifier", {"IN"})>>
        \o (IF tkind = "TimerFd" THEN <<PollFd("timerfd", {"IN"})>> ELSE <<>>)

\* PollReactor::wait up to the call of poll: set_timeout succeeds, the
\* notifier and the timeout source are registered
WaitBegin(duration) ==
    /\ rpc = "idle"
    /\ IF tkind = "TimerFd"
       THEN /\ timerfd' = TimerFdSettime(TimerFdValue(duration))
            /\ timeout' = <<-1>>
       ELSE /\ timerfd' = timerfd
            /\ timeout' = <<PollSetTimeout(duration)>>
    /\ pollfds' = pollfds \o OwnEntries
    /\ rpc' = "poll"
    /\ res' = "none"
    /\ UNCHANGED <<tkind, wakers, woken>>
    /\ UNCHANGED notifierVars
    /\ UNCHANGED timerVars
    /\ UNCHANGED futVars

\* PollReactor::wait returning the error of set_timeout (timerfd_settime
\* failed; PollTimeout::set_timeout cannot fail)
WaitSetTimeoutErr ==
    /\ rpc = "idle"
    /\ tkind = "TimerFd"
    /\ InnerGuardDrop
    /\ res' = "err"
    /\ UNCHANGED <<tkind, timerfd, rpc, timeout, woken>>
    /\ UNCHANGED notifierVars
    /\ UNCHANGED timerVars
    /\ UNCHANGED futVars

\* revents poll(2) stores into entry i, cond[fd] being the condition the
\* kernel finds user descriptor fd in
Revents(i, cond) ==
    IF i <= Len(wakers) THEN Reported(pollfds[i].events, cond[pollfds[i].fd])
    ELSE IF pollfds[i].fd = "notifier"
         THEN (IF NotifierReadable(unread) THEN {"IN"} ELSE {})
         ELSE (IF timerfd = "expired" THEN {"IN"} ELSE {})

\* number of entries of pfds[from..] with a non-empty revents
CountReady(pfds, from) ==
    Cardinality({i \in from..Len(pfds) : pfds[i].revents # {}})

\* the guard counts the ready entries of the whole list, not of its tail
TakesWakerArmWholeList(pfds, n) ==
    /\ n # 0
    /\ ~(n \in {1, 2} /\ CountReady(pfds, 1) = n)

\* the match on poll's return value n: TRUE when the waker loop runs
TakesWakerArm(pfds, n) ==
    /\ n # 0
    /\ ~(n \in {1, 2} /\ CountReady(pfds, Len(wakers) + 1) = n)

\* poll(2) returns n >= 0
PollReturn(cond) ==
    /\ rpc = "poll"
    /\ LET polled == [i \in 1..Len(pollfds) |->
                        [pollfds[i] EXCEPT !.revents = Revents(i, cond)]]
           n == CountReady(polled, 1)
       IN  /\ n > 0 \/ timeout[1] >= 0
           /\ pollfds' = polled
           /\ rpc' = IF TakesWakerArm(polled, n) THEN "dispatch" ELSE "clear"
    /\ timeout' = <<>>
    /\ UNCHANGED <<tkind, timerfd, wakers, res, woken>>
    /\ UNCHANGED notifierVars
    /\ UNCHANGED timerVars
    /\ UNCHANGED futVars

\* poll(2) returns with no user descriptor in any condition
PollQuiet == PollReturn([fd \in UserFds |-> {}])

\* poll(2) fails and wait() returns its error
PollErr ==
    /\ rpc = "poll"
    /\ InnerGuardDrop
    /\ rpc' = "idle"
    /\ timeout' = <<>>
    /\ res' = "err"
    /\ UNCHANGED <<tkind, timerfd, woken>>
    /\ UNCHANGED notifierVars
    /\ UNCHANGED timerVars
    /\ UNCHANGED futVars

\* the loop goes through the entries from the last to the first
RECURSIVE InvokedFromLast(_, _, _)
InvokedFromLast(pfds, wks, i) ==
    IF i > Len(pfds) \/ i > Len(wks) THEN <<>>
    ELSE InvokedFromLast(pfds, wks, i + 1)
             \o (IF pfds[i].revents \cap WakeFlags # {} THEN <<(<<i, wks[i]>>)>> ELSE <<>>)

\* the wakers invoked by the loop over pollfds.iter().zip(&wakers), from
\* entry i on
RECURSIVE Invoked(_, _, _)
Invoked(pfds, wks, i) ==
    IF i > Len(pfds) \/ i > Len(wks) THEN <<>>
    ELSE (IF pfds[i].revents \cap WakeFlags # {} THEN <<(<<i, wks[i]>>)>> ELSE <<>>)
             \o Invoked(pfds, wks, i + 1)

\* the flag is left as it is before the wakers are invoked
SetToNotifiedSkipped == is_notified

\* FlagNotifier::set_to_notified
SetToNotified == TRUE

\* the last arm of the match: set_to_notified, then the waker loop
Dispatch ==
    /\ rpc = "dispatch"
    /\ is_notified' = SetToNotified
    /\ woken' = Invoked(pollfds, wakers, 1)
    /\ rpc' = "clear"
    /\ UNCHANGED <<nkind, unread, npc>>
    /\ UNCHANGED <<tkind, timerfd, pollfds, wakers, timeout, res>>
    /\ UNCHANGED timerVars
    /\ UNCHANGED futVars

\* the wakers of inv, from its entry k on, are invoked one after the other
\* and each calls FlagNotifier::notify on the thread of the reactor: st is
\* [flag, unread, log], the log keeping for every waker whether its notify
\* wrote to the descriptor
RECURSIVE WakersNotify(_, _, _)
WakersNotify(st, inv, k) ==
    IF k > Len(inv)
    THEN st
    ELSE LET ok == CompareExchangeOk(st.flag)
         IN  WakersNotify([flag |-> TRUE,
                           unread |-> IF ok THEN InnerNotify(nkind, st.unread)
                                      ELSE st.unread,
                           log |-> Append(st.log, <<inv[k][1], inv[k][2], ok>>)],
                          inv, k + 1)

\* the last arm of the match with wakers that notify the reactor, as the
\* wakers of tasks do: set_to_notified, then the waker loop
DispatchNotifying ==
    /\ rpc = "dispatch"
    /\ LET r == WakersNotify([flag |-> SetToNotified, unread |-> unread, log |-> <<>>],
                             Invoked(pollfds, wakers, 1), 1)
       IN  /\ is_notified' = r.flag
           /\ unread' = r.unread
           /\ woken' = r.log
    /\ rpc' = "clear"
    /\ UNCHANGED <<nkind, npc>>
    /\ UNCHANGED <<tkind, timerfd, pollfds, wakers, timeout, res>>
    /\ UNCHANGED timerVars
    /\ UNCHANGED futVars

\* FlagNotifier::clear, first half: self.inner.clear()
ClearRead ==
    /\ rpc = "clear"
    /\ unread' = InnerClear(nkind, unread)
    /\ rpc' = "clear_store"
    /\ UNCHANGED <<nkind, is_notified, npc>>
    /\ UNCHANGED <<tkind, timerfd, pollfds, wakers, timeout, res, woken>>
    /\ UNCHANGED timerVars
    /\ UNCHANGED futVars

\* clear() drains the descriptor and leaves the flag set
ClearedFlagStuck == TRUE

\* the value FlagNotifier::clear stores into is_notified
ClearedFlag == FALSE

\* FlagNotifier::clear, second half: the store into is_notified; wait()
\* then returns Ok(())
ClearStore ==
    /\ rpc = "clear_store"
    /\ is_notified' = ClearedFlag
    /\ InnerGuardDrop
    /\ rpc' = "idle"
    /\ res' = "ok"
    /\ woken' = <<>>
    /\ UNCHANGED <<nkind, unread, npc>>
    /\ UNCHANGED <<tkind, timerfd, timeout>>
    /\ UNCHANGED timerVars
    /\ UNCHANGED futVars

\* the one-shot timer of the timerfd expires
TimerFdExpire ==
    /\ timerfd = "armed"
    /\ timerfd' = "expired"
    /\ UNCHANGED <<tkind, pollfds, wakers, rpc, timeout, res, woken>>
    /\ UNCHANGED notifierVars
    /\ UNCHANGED timerVars
    /\ UNCHANGED futVars

----------------------------------------------------------------------------
(* Initial values of the parts a specification does not use *)

ReactorIdle ==
    /\ tkind = "PollTimeout"
    /\ timerfd = "disarmed"
    /\ pollfds = <<>>
    /\ wakers = <<>>
    /\ rpc = "idle"
    /\ timeout = <<>>
    /\ res = "none"
    /\ woken = <<>>

NotifierNew ==
    /\ is_notified = FALSE
    /\ unread = 0

NoCall ==
    [op |-> "none", pc |-> "", key |-> <<>>, waker |-> "", before |-> {}, at |-> 0,
     ret |-> <<>>]

NoTimeout ==
    [st |-> "none", since |-> 0, d |-> 0, child |-> "", out |-> "", order |-> <<>>,
     at |-> 0, n |-> 0]

\* children are numbered as the slots of the arrays are: from 0
Children == 0..(NumChildren - 1)

\* a child stream is empty or yields MaxItems items
StreamLens == {0, MaxItems}

NoComb ==
    [kind |-> "none", pollers |-> <<>>, wakers |-> <<>>, parent |-> <<>>, idx |-> 0,
     none_count |-> 0]

NoObs ==
    [ret |-> "", val |-> <<>>, log |-> <<>>, lastres |-> <<>>, invoked |-> <<>>,
     rtime |-> <<>>, got |-> <<>>, inorder |-> TRUE, yielded |-> <<>>,
     row |-> [i |-> 0, n |-> 0, others |-> {}], polls |-> 0, cx |-> "", fwd |-> ""]

Adapters == 1..NumAdapters

NoAsync == [st |-> "none", via |-> "", todo |-> <<>>, fd |-> "none", owner |-> ""]

NoIoRet ==
    [a |-> 0, interest |-> "", waker |-> "", out |-> "", attempts |-> 0,
     ret |-> <<>>, added |-> {}, removed |-> {}, on |-> FALSE]

NoConv == [st |-> "none", duration |-> <<>>, ms |-> <<>>, ret |-> <<>>, value |-> <<>>]

\* no Timeout, no task, no combinator, no adapter
TaskIdle ==
    /\ tmo = NoTimeout
    /\ xpc = "poll"
    /\ awake = TRUE
    /\ comb = NoComb
    /\ kids = <<>>
    /\ obs = NoObs
    /\ asyncs = [a \in Adapters |-> NoAsync]
    /\ registered = {}
    /\ enabled = {}
    /\ ioret = NoIoRet

\* and no conversion
FutIdle ==
    /\ TaskIdle
    /\ conv = NoConv

\* TimerQueue::new
TimerQueueNew ==
    /\ now = 0
    /\ current_id = 1
    /\ nreg = 0
    /\ timers = {}
    /\ call = NoCall
    /\ fired = <<>>
    /\ gone = {}
    /\ tm = <<>>

----------------------------------------------------------------------------
(* TimerQueue *)

Times == 0..MaxTime
TimerWakers == {"w1", "w2"}

\* the key (Instant, Id) of an entry of the BTreeMap, and its derived order
Key(e) == <<e.expiry, e.id>>
KeyLess(a, b) == a[1] < b[1] \/ (a[1] = b[1] /\ a[2] < b[2])

\* the queue hands out its entries in order of registration
FirstEntryOldest(q) == CHOOSE e \in q : \A f \in q : e.n <= f.n

\* BTreeMap::first_entry
FirstEntry(q) == CHOOSE e \in q : \A f \in q : f = e \/ KeyLess(Key(e), Key(f))

\* BTreeMap::insert: an entry with the same key is replaced
Insert(q, expiry, id, waker, n) ==
    {e \in q : Key(e) # <<expiry, id>>}
        \cup {[expiry |-> expiry, id |-> id, waker |-> waker, n |-> n]}

\* Id::overflowing_incr: the counter starts again at 1 after the largest Id
IdIncr(id) == IF id = IdMax THEN 1 ELSE id + 1

\* the waker of the entry is left as it is
ModifyWakerKeep(q, id, expiry, waker) == q

\* a missing key is inserted with the waker
ModifyWakerOrInsert(q, id, expiry, waker) ==
    Insert(q, expiry, id, waker, 0)

\* TimerQueue::modify: get_mut(&(expiry, id)) and clone_from, nothing when
\* the key is missing
ModifyWaker(q, id, expiry, waker) ==
    {IF Key(e) = <<expiry, id>> THEN [e EXCEPT !.waker = waker] ELSE e : e \in q}

\* the key is looked up with its two parts swapped
CancelSwappedKey(q, id, expiry) == {e \in q : Key(e) # <<id, expiry>>}

\* every entry of that expiry is removed
CancelWholeInstant(q, id, expiry) == {e \in q : e.expiry # expiry}

\* TimerQueue::cancel: remove(&(expiry, id))
Cancel(q, id, expiry) == {e \in q : Key(e) # <<expiry, id>>}

\* next_timeout wakes an entry although the clock has not passed its expiry
QueueExpiredAlways(expiry, t) == TRUE

\* the test `expiry <= now` of next_timeout
QueueExpired(expiry, t) == expiry <= t

\* the Timer resolves only once the clock is strictly past its expiry
TimerExpiredStrict(expiry, t) == expiry < t

\* the test `self.expiry <= Instant::now()` of Timer::poll
TimerExpired(expiry, t) == expiry <= t

\* the clock advances
Tick ==
    /\ now < MaxTime
    /\ now' = now + 1
    /\ UNCHANGED <<current_id, nreg, timers, call, fired, gone, tm>>
    /\ UNCHANGED notifierVars
    /\ UNCHANGED reactorVars
    /\ UNCHANGED futVars

\* TimerQueue::next_timeout is entered: timers.borrow_mut()
NextTimeoutCall ==
    /\ call.pc # "loop"
    /\ call' = [NoCall EXCEPT !.op = "next_timeout", !.pc = "loop",
                              !.before = timers, !.at = now]
    /\ fired' = <<>>
    /\ UNCHANGED <<now, current_id, nreg, timers, gone, tm>>
    /\ UNCHANGED notifierVars
    /\ UNCHANGED reactorVars
    /\ UNCHANGED futVars

\* one iteration of the loop of next_timeout, reading the clock anew
NextTimeoutIterBody ==
    /\ call.pc = "loop"
    /\ IF timers = {}
       THEN /\ call' = [call EXCEPT !.pc = "returned", !.at = now, !.ret = None]
            /\ UNCHANGED <<timers, fired>>
       ELSE LET entry == FirstEntry(timers)
            IN  IF QueueExpired(entry.expiry, now)
                THEN /\ timers' = timers \ {entry}
                     /\ fired' = Append(fired, entry)
                     /\ call' = [call EXCEPT !.at = now]
                ELSE /\ call' = [call EXCEPT !.pc = "returned", !.at = now,
                                             !.ret = Some(entry.expiry - now)]
                     /\ UNCHANGED <<timers, fired>>
    /\ UNCHANGED <<now, current_id, nreg, gone, tm>>

NextTimeoutIter ==
    /\ NextTimeoutIterBody
    /\ UNCHANGED notifierVars
    /\ UNCHANGED reactorVars
    /\ UNCHANGED futVars

\* the entries cancel() has removed from the queue so far
Cancelled(id, expiry) ==
    gone \cup {<<expiry, id, e.n>> : e \in {f \in timers : Key(f) = <<expiry, id>>}}

\* TimerQueue::register
QRegister(expiry, waker) ==
    /\ call.pc # "loop"
    /\ nreg < MaxRegs
    /\ timers' = Insert(timers, expiry, current_id, waker, nreg + 1)
    /\ current_id' = IdIncr(current_id)
    /\ nreg' = nreg + 1
    /\ call' = NoCall
    /\ fired' = <<>>
    /\ UNCHANGED <<now, gone, tm>>
    /\ UNCHANGED notifierVars
    /\ UNCHANGED reactorVars
    /\ UNCHANGED futVars

\* TimerQueue::modify
QModify(id, expiry, waker) ==
    /\ call.pc # "loop"
    /\ timers' = ModifyWaker(timers, id, expiry, waker)
    /\ call' = NoCall
    /\ fired' = <<>>
    /\ UNCHANGED <<now, current_id, nreg, gone, tm>>
    /\ UNCHANGED notifierVars
    /\ UNCHANGED reactorVars
    /\ UNCHANGED futVars

\* TimerQueue::modify, the call being kept for observation with the entry
\* that get_mut found
QModifyObserved(id, expiry, waker) ==
    /\ call.pc # "loop"
    /\ timers' = ModifyWaker(timers, id, expiry, waker)
    /\ call' = [NoCall EXCEPT !.op = "modify", !.key = <<expiry, id>>,
                              !.waker = waker,
                              !.before = {e \in timers : Key(e) = <<expiry, id>>}]
    /\ fired' = <<>>
    /\ UNCHANGED <<now, current_id, nreg, gone, tm>>
    /\ UNCHANGED notifierVars
    /\ UNCHANGED reactorVars
    /\ UNCHANGED futVars

\* TimerQueue::cancel
QCancel(id, expiry) ==
    /\ call.pc # "loop"
    /\ timers' = Cancel(timers, id, expiry)
    /\ gone' = Cancelled(id, expiry)
    /\ call' = [NoCall EXCEPT !.op = "cancel", !.key = <<expiry, id>>,
                              !.before = timers]
    /\ fired' = <<>>
    /\ UNCHANGED <<now, current_id, nreg, tm>>
    /\ UNCHANGED notifierVars
    /\ UNCHANGED reactorVars
    /\ UNCHANGED futVars

(* Timer *)

\* Timer::at (Timer::delay(d) is Timer::at(now + d))
TimerAtBody(i, expiry) ==
    /\ call.pc # "loop"
    /\ tm[i].st = "none"
    /\ \A j \in DOMAIN tm : j < i => tm[j].st # "none"
    /\ tm' = [tm EXCEPT ![i] = [st |-> "new", expiry |-> expiry,
                                timer_id |-> None, reg |-> None]]
    /\ call' = NoCall
    /\ fired' = <<>>
    /\ UNCHANGED <<now, current_id, nreg, timers, gone>>

TimerAt(i, expiry) ==
    /\ TimerAtBody(i, expiry)
    /\ UNCHANGED notifierVars
    /\ UNCHANGED reactorVars
    /\ UNCHANGED futVars

\* <Timer as Future>::poll with the waker of cx
TimerPollBody(i, waker) ==
    /\ call.pc # "loop"
    /\ tm[i].st \in {"new", "pending", "ready"}
    /\ IF TimerExpired(tm[i].expiry, now)
       THEN /\ IF tm[i].timer_id # None
               THEN /\ timers' = Cancel(timers, tm[i].timer_id[1], tm[i].expiry)
                    /\ gone' = Cancelled(tm[i].timer_id[1], tm[i].expiry)
               ELSE UNCHANGED <<timers, gone>>
            /\ tm' = [tm EXCEPT ![i].st = "ready", ![i].timer_id = None]
            /\ UNCHANGED <<current_id, nreg>>
       ELSE /\ IF tm[i].timer_id = None
               THEN /\ timers' = Insert(timers, tm[i].expiry, current_id, waker,
                                        nreg + 1)
                    /\ current_id' = IdIncr(current_id)
                    /\ nreg' = nreg + 1
                    /\ tm' = [tm EXCEPT ![i].st = "pending",
                                        ![i].timer_id = Some(current_id),
                                        ![i].reg = Some(nreg + 1)]
               ELSE /\ timers' = ModifyWaker(timers, tm[i].timer_id[1],
                                             tm[i].expiry, waker)
                    /\ tm' = [tm EXCEPT ![i].st = "pending"]
                    /\ UNCHANGED <<current_id, nreg>>
            /\ UNCHANGED gone
    /\ call' = NoCall
    /\ fired' = <<>>
    /\ UNCHANGED now

TimerPoll(i, waker) ==
    /\ TimerPollBody(i, waker)
    /\ UNCHANGED notifierVars
    /\ UNCHANGED reactorVars
    /\ UNCHANGED futVars

\* <Timer as Drop>::drop
TimerDropBody(i) ==
    /\ call.pc # "loop"
    /\ tm[i].st \in {"new", "pending", "ready"}
    /\ IF tm[i].timer_id # None
       THEN /\ timers' = Cancel(timers, tm[i].timer_id[1], tm[i].expiry)
            /\ gone' = Cancelled(tm[i].timer_id[1], tm[i].expiry)
       ELSE UNCHANGED <<timers, gone>>
    /\ tm' = [tm EXCEPT ![i] = [st |-> "dropped", expiry |-> 0,
                                timer_id |-> None, reg |-> tm[i].reg]]
    /\ call' = NoCall
    /\ fired' = <<>>
    /\ UNCHANGED <<now, current_id, nreg>>

TimerDrop(i) ==
    /\ TimerDropBody(i)
    /\ UNCHANGED notifierVars
    /\ UNCHANGED reactorVars
    /\ UNCHANGED futVars

(* Timer, as a function of the state of the queue and of the timers: what  *)
(* a future that holds Timers does to them within one poll of its own      *)

\* the thread-local queue and the Timers as one value
QueueState ==
    [timers |-> timers, current_id |-> current_id, nreg |-> nreg, gone |-> gone,
     tm |-> tm]

\* Timer::delay(d): Timer::at(Instant::now() + d)
TimerDelayFn(q, i, d) ==
    [q EXCEPT !.tm[i] = [st |-> "new", expiry |-> now + d, timer_id |-> None,
                         reg |-> None]]

\* <Timer as Future>::poll with the waker of cx
TimerPollFn(q, i, waker) ==
    LET t == q.tm[i]
    IN  IF TimerExpired(t.expiry, now)
        THEN LET q1 == IF t.timer_id # None
                       THEN [q EXCEPT
                               !.timers = Cancel(@, t.timer_id[1], t.expiry),
                               !.gone = @ \cup
                                   {<<e.expiry, e.id, e.n>> :
                                       e \in {f \in q.timers :
                                                 Key(f) = <<t.expiry, t.timer_id[1]>>}}]
                       ELSE q
             IN  [q1 EXCEPT !.tm[i].st = "ready", !.tm[i].timer_id = None]
        ELSE IF t.timer_id = None
             THEN [q EXCEPT
                     !.timers = Insert(@, t.expiry, q.current_id, waker, q.nreg + 1),
                     !.current_id = IdIncr(@),
                     !.nreg = @ + 1,
                     !.tm[i].st = "pending",
                     !.tm[i].timer_id = Some(q.current_id),
                     !.tm[i].reg = Some(q.nreg + 1)]
             ELSE [q EXCEPT
                     !.timers = ModifyWaker(@, t.timer_id[1], t.expiry, waker),
                     !.tm[i].st = "pending"]

(* Timeout *)

\* timeout(fut, d): Timeout { timer: Timer::delay(d), fut }
TimeoutBody(d) ==
    /\ tmo.st = "none"
    /\ now + d <= MaxTime
    /\ TimerAtBody(1, now + d)
    /\ tmo' = [NoTimeout EXCEPT !.st = "new", !.since = now, !.d = d]

\* the timer is polled before the child
TimeoutPollTimerFirst(ready, waker) ==
    /\ tmo.st \in {"new", "pending"}
    /\ TimerPollBody(1, waker)
    /\ tmo' = [tmo EXCEPT
                 !.st = IF tm'[1].st = "ready" \/ ready THEN "done" ELSE "pending",
                 !.child = IF tm'[1].st = "ready" THEN ""
                           ELSE IF ready THEN "Ready" ELSE "Pending",
                 !.out = IF tm'[1].st = "ready" THEN "Err"
                         ELSE IF ready THEN "Ok" ELSE "Pending",
                 !.order = IF tm'[1].st = "ready" THEN <<"timer">>
                           ELSE <<"timer", "fut">>,
                 !.at = now,
                 !.n = IF tm'[1].st = "ready" \/ ready THEN @ + 1 ELSE @]

\* a ready timer is taken for a pending one
TimeoutPollNoErr(ready, waker) ==
    /\ tmo.st \in {"new", "pending"}
    /\ IF ready
       THEN /\ tmo' = [tmo EXCEPT !.st = "done", !.child = "Ready", !.out = "Ok",
                                  !.order = <<"fut">>, !.at = now, !.n = @ + 1]
            /\ UNCHANGED timerVars
       ELSE /\ TimerPollBody(1, waker)
            /\ tmo' = [tmo EXCEPT !.st = "pending", !.child = "Pending",
                                  !.out = "Pending", !.order = <<"fut", "timer">>,
                                  !.at = now]

\* <Timeout as Future>::poll, `ready` telling what the poll of the child
\* returns: Ready(out) or Pending
TimeoutPollBody(ready, waker) ==
    /\ tmo.st \in {"new", "pending"}
    /\ IF ready
       THEN /\ tmo' = [tmo EXCEPT !.st = "done", !.child = "Ready", !.out = "Ok",
                                  !.order = <<"fut">>, !.at = now, !.n = @ + 1]
            /\ UNCHANGED timerVars
       ELSE /\ TimerPollBody(1, waker)
            /\ IF tm'[1].st = "ready"
               THEN tmo' = [tmo EXCEPT !.st = "done", !.child = "Pending",
                                       !.out = "Err", !.order = <<"fut", "timer">>,
                                       !.at = now, !.n = @ + 1]
               ELSE tmo' = [tmo EXCEPT !.st = "pending", !.child = "Pending",
                                       !.out = "Pending",
                                       !.order = <<"fut", "timer">>, !.at = now]

\* the Timeout is dropped, and its timer with it
TimeoutDropBody ==
    /\ tmo.st \in {"new", "pending", "done"}
    /\ TimerDropBody(1)
    /\ tmo' = [tmo EXCEPT !.st = "dropped", !.child = "", !.out = "",
                          !.order = <<>>]

Timeout(d) ==
    /\ TimeoutBody(d)
    /\ UNCHANGED <<xpc, awake, combVars, ioVars, convVars>>
    /\ UNCHANGED notifierVars
    /\ UNCHANGED reactorVars

TimeoutPoll(ready, waker) ==
    /\ TimeoutPollBody(ready, waker)
    /\ UNCHANGED <<xpc, awake, combVars, ioVars, convVars>>
    /\ UNCHANGED notifierVars
    /\ UNCHANGED reactorVars

TimeoutDrop ==
    /\ TimeoutDropBody
    /\ UNCHANGED <<xpc, awake, combVars, ioVars, convVars>>
    /\ UNCHANGED notifierVars
    /\ UNCHANGED reactorVars

TaskWaker == "w1"
OtherWaker == "w2"

(* The loop of the executor over one task, which awaits timeout(fut, d) *)

\* the waker of the task was invoked since the task was last polled
Runnable ==
    awake \/ \E k \in 1..Len(fired) : fired[k].waker = TaskWaker

\* the task is spawned; its child future never completes
ExecSpawn(d) ==
    /\ xpc = "poll"
    /\ TimeoutBody(d)
    /\ UNCHANGED <<xpc, awake, combVars, ioVars, convVars>>
    /\ UNCHANGED notifierVars
    /\ UNCHANGED reactorVars

\* another task, polled in the same drain, registers a timer of its own; the
\* ids stay short of wrapping around
OtherTimer(expiry) ==
    /\ xpc = "poll"
    /\ nreg + 1 < IdMax
    /\ QRegister(expiry, OtherWaker)

\* drain the runnable task queue: the task is polled if it is runnable; the
\* loop ends when the task has resolved
ExecPoll ==
    /\ xpc = "poll"
    /\ tmo.st \in {"new", "pending"}
    /\ IF awake
       THEN /\ TimeoutPollBody(FALSE, TaskWaker)
            /\ awake' = FALSE
       ELSE UNCHANGED <<timerVars, tmo, awake>>
    /\ xpc' = IF tmo'.st = "done" THEN "done" ELSE "timers"
    /\ UNCHANGED <<combVars, ioVars, convVars>>
    /\ UNCHANGED notifierVars
    /\ UNCHANGED reactorVars

\* timer_queue.next_timeout()
ExecNextTimeout ==
    /\ xpc = "timers"
    /\ call.op # "next_timeout"
    /\ NextTimeoutCall

\* reactor.wait(timeout) with the result of next_timeout(): it returns after
\* the timeout, or at any time when the waker of the task notified the reactor;
\* a task whose waker was invoked is runnable in the next drain
ExecWait ==
    /\ xpc = "timers"
    /\ call.op = "next_timeout"
    /\ call.pc = "returned"
    /\ \E t \in now..MaxTime :
          /\ \/ Runnable
             \/ /\ call.ret # None
                /\ \/ t >= now + call.ret[1]
                   \/ t = MaxTime
          /\ now' = t
    /\ call' = NoCall
    /\ xpc' = "poll"
    /\ awake' = Runnable
    /\ UNCHANGED <<current_id, nreg, timers, fired, gone, tm>>
    /\ UNCHANGED <<tmo, combVars, ioVars, convVars>>
    /\ UNCHANGED notifierVars
    /\ UNCHANGED reactorVars

\* the child future wakes the task without completing
ChildWake ==
    /\ tmo.st = "pending"
    /\ ~awake
    /\ awake' = TRUE
    /\ UNCHANGED <<tmo, xpc, combVars, ioVars, convVars>>
    /\ UNCHANGED timerVars
    /\ UNCHANGED notifierVars
    /\ UNCHANGED reactorVars

ExecStep ==
    \/ ExecPoll
    \/ ExecNextTimeout
    \/ NextTimeoutIter
    \/ ExecWait

(* FlagWaker *)

\* From<Waker> for FlagWaker: the flag starts set
FlagWakerFrom == Some(TRUE)

\* the flag is read and left as it is
CheckAwokenKeep(w) == [ret |-> w[1], w |-> w]

\* FlagWaker::check_awoken: awoken.swap(false)
CheckAwoken(w) == [ret |-> w[1], w |-> Some(FALSE)]

\* FlagWaker::set_awoken: awoken.store(true)
SetAwoken(w) == Some(TRUE)

\* the waker kept in the FlagWaker is invoked and the flag left as it is
WakeForwardOnly(st, i) ==
    [st EXCEPT !.o.invoked[i] = TRUE, !.a = TRUE, !.o.fwd = st.c.parent[i][1]]

\* <FlagWaker as Wake>::wake of the trampoline waker of child i: the flag is
\* set and the waker kept in the FlagWaker is invoked
Wake(st, i) ==
    [st EXCEPT !.c.wakers[i] = SetAwoken(@), !.o.invoked[i] = TRUE, !.a = TRUE,
               !.o.fwd = st.c.parent[i][1]]

\* waker.get_or_insert_with(..): the pair is made on the first visit
GetOrInsertWith(w) == IF w = None THEN FlagWakerFrom ELSE w

\* the closure of get_or_insert_with, FlagWaker::from(cx.waker().clone()),
\* runs on the first visit only: the field `waker` is the waker of that poll
ParentWaker(st, i) ==
    IF st.c.wakers[i] = None THEN Some(st.cx) ELSE st.c.parent[i]

(* The children *)

\* item k of child i; a future outputs its only item
Item(i, k) == [child |-> i, k |-> k]

IsStreams(kind) == kind = "merge_streams"

\* the children are futures that sleep: child i is
\* `async { sleep(d1).await; sleep(d2).await; .. }` over the durations
\* sleeps[i], and pos[i] tells the sleep it has come to
IsSleeps(k) == "sleeps" \in DOMAIN k

\* the trampoline waker of child i as the timer queue holds it
TrampolineWaker(i) == <<"flag", i>>

\* the Timer of the k-th sleep of child i: child 1 sleeps twice, the others once
TimerOf(i, k) == IF i = 0 THEN 1 ELSE IF i = 1 THEN 1 + k ELSE i + 2

\* the poll of a sleeping child from its k-th sleep on: sleep(d) makes
\* Timer::delay(d) when it is reached and awaits it; the child goes on to its
\* next sleep within the same poll when the Timer is Ready. A resolved Timer
\* holds no id, so that its drop leaves the queue as it is
RECURSIVE SleepsFrom(_, _, _, _)
SleepsFrom(q, i, ds, k) ==
    IF k > Len(ds)
    THEN [q |-> q, pos |-> k, ready |-> TRUE]
    ELSE CHOOSE r \in
             {IF q2.tm[TimerOf(i, k)].st = "ready"
              THEN SleepsFrom(q2, i, ds, k + 1)
              ELSE [q |-> q2, pos |-> k, ready |-> FALSE] :
              q2 \in {TimerPollFn(IF q.tm[TimerOf(i, k)].st = "none"
                                  THEN TimerDelayFn(q, TimerOf(i, k), ds[k])
                                  ELSE q,
                                  TimerOf(i, k), TrampolineWaker(i))}} : TRUE

SleepsPoll(st, i) == SleepsFrom(st.q, i, st.k.sleeps[i], st.k.pos[i])

\* fut.poll(cx) / stream.poll_next(cx) of child i: what it returns
PollFn(st, i) ==
    IF IsSleeps(st.k)
    THEN IF SleepsPoll(st, i).ready
         THEN [ready |-> TRUE, out |-> Item(i, 1)]
         ELSE [ready |-> FALSE, out |-> None]
    ELSE
    IF ~st.k.avail[i]
    THEN [ready |-> FALSE, out |-> None]
    ELSE IF IsStreams(st.c.kind)
         THEN [ready |-> TRUE,
               out |-> IF st.k.left[i] > 0 THEN Some(Item(i, st.k.given[i] + 1))
                       ELSE None]
         ELSE [ready |-> TRUE, out |-> Item(i, 1)]

\* the child after that poll: an item is handed out, and a stream has to
\* become ready anew for its next one
Polled(st, i) ==
    LET p == PollFn(st, i)
        s1 == [st EXCEPT !.o.invoked[i] = FALSE,
                         !.o.lastres[i] = IF ~p.ready THEN "Pending"
                                          ELSE IF ~IsStreams(st.c.kind) THEN "Ready"
                                          ELSE IF p.out = None THEN "None" ELSE "Some"]
    IN  IF IsSleeps(st.k)
        THEN CHOOSE s2 \in
                 {[s1 EXCEPT !.q = r.q, !.k.pos[i] = r.pos, !.k.avail[i] = r.ready] :
                  r \in {SleepsPoll(st, i)}} : TRUE
        ELSE
        IF p.ready /\ st.k.left[i] > 0
        THEN [s1 EXCEPT !.k.left[i] = @ - 1, !.k.given[i] = @ + 1,
                        !.k.avail[i] = ~IsStreams(st.c.kind)]
        ELSE s1

\* what the log keeps of the visit of child i
Visit(st, i, w, chk, polled) ==
    [i |-> i, first |-> st.c.wakers[i] = None, prev |-> st.o.lastres[i],
     inv |-> st.o.invoked[i], awoken |-> chk.ret,
     cleared |-> chk.w = Some(FALSE), polled |-> polled]

(* join *)

\* Inflight::unwrap_done
UnwrapDone(inflight) ==
    IF inflight[1] = "Done" THEN inflight[2] ELSE "panic"

\* a child that was not awoken does not keep the join pending
JoinVisitAwokenOnly(st, i) ==
    IF st.c.pollers[i][1] # "Fut"
    THEN st
    ELSE LET w == GetOrInsertWith(st.c.wakers[i])
             chk == CheckAwoken(w)
             s0 == [st EXCEPT !.c.wakers[i] = chk.w,
                              !.c.parent[i] = ParentWaker(st, i),
                              !.o.log = Append(@, Visit(st, i, w, chk, chk.ret))]
         IN  IF chk.ret
             THEN LET p == PollFn(s0, i)
                      s1 == Polled(s0, i)
                  IN  IF p.ready
                      THEN [s1 EXCEPT !.c.pollers[i] = <<"Done", p.out>>]
                      ELSE [s1 EXCEPT !.o.ret = "Pending"]
             ELSE s0

\* the children are gone through one after the other: a child is left alone
\* while a child before it is pending
JoinVisitInTurn(st, i) ==
    IF st.c.pollers[i][1] # "Fut" \/ st.o.ret = "Pending"
    THEN st
    ELSE LET w == GetOrInsertWith(st.c.wakers[i])
             chk == CheckAwoken(w)
             s0 == [st EXCEPT !.c.wakers[i] = chk.w,
                              !.c.parent[i] = ParentWaker(st, i),
                              !.o.log = Append(@, Visit(st, i, w, chk, chk.ret))]
         IN  IF chk.ret
             THEN LET p == PollFn(s0, i)
                      s1 == Polled(s0, i)
                  IN  IF p.ready
                      THEN [s1 EXCEPT !.c.pollers[i] = <<"Done", p.out>>]
                      ELSE [s1 EXCEPT !.o.ret = "Pending"]
             ELSE [s0 EXCEPT !.o.ret = "Pending"]

\* one iteration of the loop of poll_join, over child i
JoinVisit(st, i) ==
    IF st.c.pollers[i][1] # "Fut"
    THEN st
    ELSE LET w == GetOrInsertWith(st.c.wakers[i])
             chk == CheckAwoken(w)
             s0 == [st EXCEPT !.c.wakers[i] = chk.w,
                              !.c.parent[i] = ParentWaker(st, i),
                              !.o.log = Append(@, Visit(st, i, w, chk, chk.ret))]
         IN  IF chk.ret
             THEN LET p == PollFn(s0, i)
                      s1 == Polled(s0, i)
                  IN  IF p.ready
                      THEN [s1 EXCEPT !.c.pollers[i] = <<"Done", p.out>>]
                      ELSE [s1 EXCEPT !.o.ret = "Pending"]
             ELSE [s0 EXCEPT !.o.ret = "Pending"]

RECURSIVE PollJoinFrom(_, _)
PollJoinFrom(st, i) ==
    IF i = NumChildren
    THEN st
    ELSE CHOOSE r \in {PollJoinFrom(s1, i + 1) : s1 \in {JoinVisit(st, i)}} : TRUE

\* poll_join: `out` starts as Ready and every child is gone through in order
PollJoin(st) ==
    PollJoinFrom([st EXCEPT !.o.ret = "Ready"], 0)

\* <JoinFuture as Future>::poll: when poll_join is Ready the array is taken
\* out and every slot unwrapped
JoinFuturePoll(st) ==
    LET s1 == PollJoin(st)
    IN  IF s1.o.ret = "Ready"
        THEN [s1 EXCEPT !.o.val = [i \in Children |-> UnwrapDone(s1.c.pollers[i])],
                        !.c.pollers = None]
        ELSE s1

(* merge_futures and merge_streams *)

\* opt_fn: Some(x) of a future's output, the Option of a stream as it is
OptFn(kind, out) == IF IsStreams(kind) THEN out ELSE Some(out)

\* every Ready of a child vacates its slot
NoneFnAlways(kind, out) == TRUE

\* the output of a future does not vacate its slot
NoneFnStreamsOnly(kind, out) == IsStreams(kind) /\ out = None

\* none_fn: true of a future's output, is_none() of a stream's
NoneFn(kind, out) == IF IsStreams(kind) THEN out = None ELSE TRUE

\* the stream ends one child early
AllTerminatedEarly(none_count, len) == none_count + 1 >= len

\* *none_count == len
AllTerminated(none_count, len) == none_count = len

\* the slots are gone through from the first, whatever idx
ScanOrderFromZero(idx) ==
    [j \in 1..NumChildren |-> j - 1]

\* iter_remain.chain(iter_past): the slots from idx on, then those before it
ScanOrder(idx) ==
    [j \in 1..NumChildren |-> (idx + j - 1) % NumChildren]

\* the children other than i that would return a value if they were polled now
OthersReady(st, i) ==
    {j \in Children \ {i} :
        /\ st.c.pollers[j] # None
        /\ st.k.avail[j]
        /\ st.k.left[j] > 0}

\* child i yields a value: after the same child or after another one
InARow(st, i) ==
    IF st.o.row.n > 0 /\ st.o.row.i = i
    THEN [i |-> i, n |-> 2, others |-> st.o.row.others \cap OthersReady(st, i)]
    ELSE [i |-> i, n |-> 1, others |-> OthersReady(st, i)]

\* a slot is vacated without being counted
MergedVisitNoCount(st, i) ==
    IF st.c.pollers[i] = None
    THEN st
    ELSE LET w == GetOrInsertWith(st.c.wakers[i])
             chk == CheckAwoken(w)
             s0 == [st EXCEPT !.c.wakers[i] = chk.w,
                              !.c.parent[i] = ParentWaker(st, i),
                              !.o.log = Append(@, Visit(st, i, w, chk, chk.ret))]
         IN  IF ~chk.ret
             THEN s0
             ELSE LET p == PollFn(s0, i)
                      s1 == Polled(s0, i)
                      s2 == IF NoneFn(st.c.kind, p.out)
                            THEN [s1 EXCEPT !.c.pollers[i] = None]
                            ELSE s1
                      opt == OptFn(st.c.kind, p.out)
                  IN  IF ~p.ready
                      THEN s1
                      ELSE IF opt # None
                           THEN [s2 EXCEPT
                                   !.c.wakers[i] = SetAwoken(@),
                                   !.o.ret = "Some",
                                   !.o.val = opt,
                                   !.o.inorder = @ /\ opt[1].k = st.o.got[i] + 1,
                                   !.o.got[i] = @ + 1,
                                   !.o.yielded = IF IsStreams(st.c.kind) THEN @
                                                 ELSE Append(@, opt[1]),
                                   !.o.row = InARow(st, i)]
                           ELSE s2

\* the body of the loop of poll_merged over child i, up to the return of a value
MergedVisit(st, i) ==
    IF st.c.pollers[i] = None
    THEN st
    ELSE LET w == GetOrInsertWith(st.c.wakers[i])
             chk == CheckAwoken(w)
             s0 == [st EXCEPT !.c.wakers[i] = chk.w,
                              !.c.parent[i] = ParentWaker(st, i),
                              !.o.log = Append(@, Visit(st, i, w, chk, chk.ret))]
         IN  IF ~chk.ret
             THEN s0
             ELSE LET p == PollFn(s0, i)
                      s1 == Polled(s0, i)
                      s2 == IF NoneFn(st.c.kind, p.out)
                            THEN [s1 EXCEPT !.c.pollers[i] = None,
                                            !.c.none_count = @ + 1]
                            ELSE s1
                      opt == OptFn(st.c.kind, p.out)
                  IN  IF ~p.ready
                      THEN s1
                      ELSE IF opt # None
                           THEN [s2 EXCEPT
                                   !.c.wakers[i] = SetAwoken(@),
                                   !.o.ret = "Some",
                                   !.o.val = opt,
                                   !.o.inorder = @ /\ opt[1].k = st.o.got[i] + 1,
                                   !.o.got[i] = @ + 1,
                                   !.o.yielded = IF IsStreams(st.c.kind) THEN @
                                                 ELSE Append(@, opt[1]),
                                   !.o.row = InARow(st, i)]
                           ELSE s2

\* the end of the stream is looked for only after a slot that was vacated in
\* this call
RECURSIVE PollMergedFromVacated(_, _, _)
PollMergedFromVacated(st, order, j) ==
    IF j > Len(order)
    THEN [st EXCEPT !.o.ret = "Pending"]
    ELSE CHOOSE r \in
             {IF s1.o.ret # ""
              THEN s1
              ELSE LET s2 == [s1 EXCEPT !.c.idx = (@ + 1) % NumChildren]
                   IN  IF /\ s1.c.none_count # st.c.none_count
                          /\ AllTerminated(s2.c.none_count, NumChildren)
                       THEN [s2 EXCEPT !.o.ret = "None"]
                       ELSE PollMergedFromVacated(s2, order, j + 1) :
              s1 \in {MergedVisit(st, order[j])}} : TRUE

RECURSIVE PollMergedFrom(_, _, _)
PollMergedFrom(st, order, j) ==
    IF j > Len(order)
    THEN [st EXCEPT !.o.ret = "Pending"]
    ELSE CHOOSE r \in
             {IF s1.o.ret # ""
              THEN s1
              ELSE LET s2 == [s1 EXCEPT !.c.idx = (@ + 1) % NumChildren]
                   IN  IF AllTerminated(s2.c.none_count, NumChildren)
                       THEN [s2 EXCEPT !.o.ret = "None"]
                       ELSE PollMergedFrom(s2, order, j + 1) :
              s1 \in {MergedVisit(st, order[j])}} : TRUE

\* the index is moved past the child that yields a value
PollMergedRotated(st) ==
    LET r == PollMergedFrom(st, ScanOrder(st.c.idx), 1)
    IN  IF r.o.ret = "Some"
        THEN [r EXCEPT !.c.idx = (@ + 1) % NumChildren]
        ELSE r

\* poll_merged: the order of the scan is fixed from *idx as the call begins
PollMerged(st) ==
    PollMergedFrom(st, ScanOrder(st.c.idx), 1)

(* The combinators and their children as actions *)

NewObs ==
    [NoObs EXCEPT !.lastres = [i \in Children |-> "none"],
                  !.invoked = [i \in Children |-> FALSE],
                  !.rtime = [i \in Children |-> 0],
                  !.got = [i \in Children |-> 0]]

\* JoinFuture::new over futures of which those of rdy are ready from the start
JoinFutureNew(rdy) ==
    /\ comb.kind = "none"
    /\ comb' = [kind |-> "join", pollers |-> [i \in Children |-> <<"Fut">>],
                wakers |-> [i \in Children |-> None],
                parent |-> [i \in Children |-> None], idx |-> 0, none_count |-> 0]
    /\ kids' = [avail |-> [i \in Children |-> i \in rdy],
                left |-> [i \in Children |-> 1], given |-> [i \in Children |-> 0]]
    /\ obs' = NewObs
    /\ UNCHANGED <<timeoutVars, ioVars, convVars>>
    /\ UNCHANGED timerVars
    /\ UNCHANGED notifierVars
    /\ UNCHANGED reactorVars

\* MergeFutureStream::new
MergeFutureStreamNew(rdy) ==
    /\ comb.kind = "none"
    /\ comb' = [kind |-> "merge_futures", pollers |-> [i \in Children |-> Some("fut")],
                wakers |-> [i \in Children |-> None],
                parent |-> [i \in Children |-> None], idx |-> 0, none_count |-> 0]
    /\ kids' = [avail |-> [i \in Children |-> i \in rdy],
                left |-> [i \in Children |-> 1], given |-> [i \in Children |-> 0]]
    /\ obs' = NewObs
    /\ UNCHANGED <<timeoutVars, ioVars, convVars>>
    /\ UNCHANGED timerVars
    /\ UNCHANGED notifierVars
    /\ UNCHANGED reactorVars

\* MergeStream::new over streams of which child i yields items[i] items
MergeStreamNew(rdy, items) ==
    /\ comb.kind = "none"
    /\ comb' = [kind |-> "merge_streams",
                pollers |-> [i \in Children |-> Some("stream")],
                wakers |-> [i \in Children |-> None],
                parent |-> [i \in Children |-> None], idx |-> 0, none_count |-> 0]
    /\ kids' = [avail |-> [i \in Children |-> i \in rdy],
                left |-> items, given |-> [i \in Children |-> 0]]
    /\ obs' = NewObs
    /\ UNCHANGED <<timeoutVars, ioVars, convVars>>
    /\ UNCHANGED timerVars
    /\ UNCHANGED notifierVars
    /\ UNCHANGED reactorVars

\* the combinator is polled with the waker cx.waker():
\* <JoinFuture as Future>::poll or poll_next of the merged stream
CombPollWith(waker) ==
    /\ comb.kind # "none"
    /\ comb.pollers # None
    /\ LET st == [c |-> comb, k |-> kids, a |-> FALSE, cx |-> waker,
                  o |-> [obs EXCEPT !.ret = "", !.val = None, !.log = <<>>,
                                    !.polls = IF @ < 2 THEN @ + 1 ELSE @,
                                    !.cx = waker, !.fwd = ""]]
           r == IF comb.kind = "join" THEN JoinFuturePoll(st) ELSE PollMerged(st)
       IN  /\ comb' = r.c
           /\ kids' = r.k
           /\ obs' = r.o
           /\ awake' = r.a
    /\ UNCHANGED <<tmo, xpc, ioVars, convVars>>
    /\ UNCHANGED timerVars
    /\ UNCHANGED notifierVars
    /\ UNCHANGED reactorVars

\* the combinator is polled by its task
CombPoll == CombPollWith(TaskWaker)

\* child i has not returned its last value yet
Alive(i) ==
    /\ comb.kind # "none"
    /\ obs.lastres[i] \notin {"Ready", "None"}

\* the times at which children became ready so far
LastTime ==
    CHOOSE t \in 0..NumChildren :
        /\ \E i \in Children : obs.rtime[i] = t
        /\ \A i \in Children : obs.rtime[i] <= t

\* child i becomes ready, at once after its last poll or at any time later: it
\* will return Ready at its next poll, and it invokes the waker it was last
\* polled with if it returned Pending then
ChildReady(i) ==
    /\ Alive(i)
    /\ ~kids.avail[i]
    /\ LET st == [c |-> comb, k |-> [kids EXCEPT !.avail[i] = TRUE], a |-> awake,
                  o |-> IF IsStreams(comb.kind) THEN obs
                        ELSE [obs EXCEPT !.rtime[i] = LastTime + 1]]
           r == IF obs.lastres[i] = "Pending" THEN Wake(st, i) ELSE st
       IN  /\ comb' = r.c
           /\ kids' = r.k
           /\ obs' = r.o
           /\ awake' = r.a
    /\ UNCHANGED <<tmo, xpc, ioVars, convVars>>
    /\ UNCHANGED timerVars
    /\ UNCHANGED notifierVars
    /\ UNCHANGED reactorVars

\* child i invokes its waker without being ready, during the poll that
\* returned Pending or at any time after it
ChildWakes(i) ==
    /\ Alive(i)
    /\ ~kids.avail[i]
    /\ obs.lastres[i] = "Pending"
    /\ ~obs.invoked[i]
    /\ LET r == Wake([c |-> comb, k |-> kids, a |-> awake, o |-> obs], i)
       IN  /\ comb' = r.c
           /\ obs' = r.o
           /\ awake' = r.a
    /\ UNCHANGED kids
    /\ UNCHANGED <<tmo, xpc, ioVars, convVars>>
    /\ UNCHANGED timerVars
    /\ UNCHANGED notifierVars
    /\ UNCHANGED reactorVars

(* The loop of the executor over one task, which awaits a join of sleeping  *)
(* children, in logical time: the clock moves in wait() only               *)

\* what a child may sleep
Sleeps == 0..MaxSleep

\* the task is spawned: join!(sleep(d[1]), async { sleep(d[2]); sleep(d[3]) }, ..)
JoinSleepsSpawn(d) ==
    /\ xpc = "poll"
    /\ comb.kind = "none"
    /\ comb' = [kind |-> "join", pollers |-> [i \in Children |-> <<"Fut">>],
                wakers |-> [i \in Children |-> None],
                parent |-> [i \in Children |-> None], idx |-> 0, none_count |-> 0]
    /\ kids' = [avail |-> [i \in Children |-> FALSE],
                left |-> [i \in Children |-> 1], given |-> [i \in Children |-> 0],
                sleeps |-> [i \in Children |->
                              IF i = 1 THEN <<d[TimerOf(1, 1)], d[TimerOf(1, 2)]>>
                              ELSE <<d[TimerOf(i, 1)]>>],
                pos |-> [i \in Children |-> 1]]
    /\ obs' = NewObs
    /\ UNCHANGED <<timeoutVars, ioVars, convVars>>
    /\ UNCHANGED timerVars
    /\ UNCHANGED notifierVars
    /\ UNCHANGED reactorVars

\* drain the runnable task queue: the task is polled if it is runnable, and
\* the JoinFuture polls its children, which poll their Timers; the loop ends
\* when the join has returned Ready
ExecPollJoin ==
    /\ xpc = "poll"
    /\ comb.kind = "join"
    /\ comb.pollers # None
    /\ call.pc # "loop"
    /\ IF awake
       THEN \E r \in {JoinFuturePoll(
                         [c |-> comb, k |-> kids, a |-> FALSE, cx |-> TaskWaker,
                          q |-> QueueState,
                          o |-> [obs EXCEPT !.ret = "", !.val = None, !.log = <<>>,
                                            !.polls = IF @ < 2 THEN @ + 1 ELSE @,
                                            !.cx = TaskWaker, !.fwd = ""]])} :
                /\ comb' = r.c
                /\ kids' = r.k
                /\ obs' = r.o
                /\ awake' = r.a
                /\ timers' = r.q.timers
                /\ current_id' = r.q.current_id
                /\ nreg' = r.q.nreg
                /\ gone' = r.q.gone
                /\ tm' = r.q.tm
                /\ call' = NoCall
                /\ fired' = <<>>
                /\ UNCHANGED now
       ELSE UNCHANGED <<timerVars, combVars, awake>>
    /\ xpc' = IF obs'.ret = "Ready" THEN "done" ELSE "timers"
    /\ UNCHANGED <<tmo, ioVars, convVars>>
    /\ UNCHANGED notifierVars
    /\ UNCHANGED reactorVars

\* one iteration of the loop of next_timeout: the waker of an expired entry is
\* the trampoline waker of a child, which sets the flag of the child and
\* wakes the task
JoinTimeoutIter ==
    /\ xpc = "timers"
    /\ NextTimeoutIterBody
    /\ IF Len(fired') > Len(fired)
       THEN LET entry == fired'[Len(fired')]
                r == Wake([c |-> comb, k |-> kids, a |-> awake, o |-> obs],
                          entry.waker[2])
            IN  /\ comb' = r.c
                /\ obs' = r.o
                /\ awake' = r.a
       ELSE UNCHANGED <<comb, obs, awake>>
    /\ UNCHANGED <<tmo, xpc, kids, ioVars, convVars>>
    /\ UNCHANGED notifierVars
    /\ UNCHANGED reactorVars

\* reactor.wait(timeout) with the result of next_timeout(): it returns at
\* once when the waker of the task notified the reactor and when the timeout
\* has passed otherwise, and it does not return without either
ExecWaitLogical ==
    /\ xpc = "timers"
    /\ call.op = "next_timeout"
    /\ call.pc = "returned"
    /\ awake \/ call.ret # None
    /\ now' = IF awake THEN now ELSE now + call.ret[1]
    /\ call' = NoCall
    /\ xpc' = "poll"
    /\ UNCHANGED <<current_id, nreg, timers, fired, gone, tm>>
    /\ UNCHANGED <<tmo, awake, combVars, ioVars, convVars>>
    /\ UNCHANGED notifierVars
    /\ UNCHANGED reactorVars

ExecJoinStep ==
    \/ ExecPollJoin
    \/ ExecNextTimeout
    \/ JoinTimeoutIter
    \/ ExecWaitLogical

(* Async<T> *)

IoInterests == {"Read", "Write"}

\* what an attempt of the operation on the descriptor returns: Ok, or an error
\* of the kind named
IoResults == {"Ok", "WouldBlock", "ConnectionReset", "Interrupted"}

\* struct Async: its fields in the order of their declaration, which is the
\* order in which they are dropped
AsyncFieldsInnerFirst == <<"inner", "handle">>

AsyncFields == <<"handle", "inner">>

\* Reactor::register(&inner): the EventHandle of adapter a
Registered(regs, a) == regs \cup {a}

\* Reactor::deregister(&handle): the handle and what was enabled for it
Deregistered(regs, a) == regs \ {a}
DeregisteredEvents(evs, a) == {e \in evs : e[1] # a}

\* Reactor::enable_event(&handle, interest, waker)
EnableEvent(evs, a, interest, waker) == evs \cup {<<a, interest, waker>>}

\* the operation is attempted again when it would block or was interrupted
PollEventRetry(evs, a, interest, waker, outs) ==
    IF outs[1] = "Ok"
    THEN [ret |-> <<"Ready", "Ok">>, attempts |-> 1, enabled |-> evs]
    ELSE IF outs[1] \in {"WouldBlock", "Interrupted"}
         THEN IF outs[2] = "Ok"
              THEN [ret |-> <<"Ready", "Ok">>, attempts |-> 2, enabled |-> evs]
              ELSE IF outs[2] = "WouldBlock"
                   THEN [ret |-> <<"Pending">>, attempts |-> 2,
                         enabled |-> EnableEvent(evs, a, interest, waker)]
                   ELSE [ret |-> <<"Ready", "Err", outs[2]>>, attempts |-> 2,
                         enabled |-> evs]
         ELSE [ret |-> <<"Ready", "Err", outs[1]>>, attempts |-> 1, enabled |-> evs]

\* Async::poll_event and poll_event_mut: f(&self.inner) returns outs[1], and
\* would return outs[2] if it were called a second time
PollEvent(evs, a, interest, waker, outs) ==
    IF outs[1] = "Ok"
    THEN [ret |-> <<"Ready", "Ok">>, attempts |-> 1, enabled |-> evs]
    ELSE IF outs[1] = "WouldBlock"
         THEN [ret |-> <<"Pending">>, attempts |-> 1,
               enabled |-> EnableEvent(evs, a, interest, waker)]
         ELSE [ret |-> <<"Ready", "Err", outs[1]>>, attempts |-> 1, enabled |-> evs]

\* Async::without_nonblocking, and Async::new when set_nonblocking succeeds
AsyncNew(a) ==
    /\ asyncs[a].st = "none"
    /\ \A b \in Adapters : b < a => asyncs[b].st # "none"
    /\ asyncs' = [asyncs EXCEPT ![a] = [st |-> "live", via |-> "", todo |-> <<>>,
                                        fd |-> "open", owner |-> "adapter"]]
    /\ registered' = Registered(registered, a)
    /\ UNCHANGED <<enabled, ioret>>
    /\ UNCHANGED <<timeoutVars, combVars, convVars>>
    /\ UNCHANGED timerVars
    /\ UNCHANGED notifierVars
    /\ UNCHANGED reactorVars

\* Async::new when set_nonblocking fails: `inner` is dropped, nothing was
\* registered
AsyncNewErr(a) ==
    /\ asyncs[a].st = "none"
    /\ \A b \in Adapters : b < a => asyncs[b].st # "none"
    /\ asyncs' = [asyncs EXCEPT ![a] = [st |-> "dropped", via |-> "new", todo |-> <<>>,
                                        fd |-> "closed", owner |-> ""]]
    /\ UNCHANGED <<registered, enabled, ioret>>
    /\ UNCHANGED <<timeoutVars, combVars, convVars>>
    /\ UNCHANGED timerVars
    /\ UNCHANGED notifierVars
    /\ UNCHANGED reactorVars

\* Async::<TcpStream>::connect up to its poll_fn: the socket is wrapped by
\* without_nonblocking and held by the future of connect
Connect(a) ==
    /\ asyncs[a].st = "none"
    /\ \A b \in Adapters : b < a => asyncs[b].st # "none"
    /\ asyncs' = [asyncs EXCEPT ![a] = [st |-> "connecting", via |-> "", todo |-> <<>>,
                                        fd |-> "open", owner |-> "adapter"]]
    /\ registered' = Registered(registered, a)
    /\ UNCHANGED <<enabled, ioret>>
    /\ UNCHANGED <<timeoutVars, combVars, convVars>>
    /\ UNCHANGED timerVars
    /\ UNCHANGED notifierVars
    /\ UNCHANGED reactorVars

\* one poll of an operation of adapter a; inside connect the operation is
\* connect(2) with Interest::Write, its error dropping the adapter (`.await?`)
\* and its success handing the adapter to the caller
IoPoll(a, interest, waker, outs) ==
    /\ asyncs[a].st \in {"live", "connecting"}
    /\ asyncs[a].st = "connecting" => interest = "Write"
    /\ LET r == PollEvent(enabled, a, interest, waker, outs)
       IN  /\ enabled' = r.enabled
           /\ ioret' = [a |-> a, interest |-> interest, waker |-> waker,
                        out |-> outs[1], attempts |-> r.attempts, ret |-> r.ret,
                        added |-> r.enabled \ enabled, removed |-> enabled \ r.enabled,
                        on |-> <<a, interest, waker>> \in r.enabled]
           /\ asyncs' =
                 IF asyncs[a].st = "connecting" /\ r.ret[1] = "Ready"
                 THEN IF r.ret[2] = "Ok"
                      THEN [asyncs EXCEPT ![a].st = "live"]
                      ELSE [asyncs EXCEPT ![a].st = "dropping",
                                          ![a].via = "connect",
                                          ![a].todo = AsyncFields]
                 ELSE asyncs
    /\ UNCHANGED registered
    /\ UNCHANGED <<timeoutVars, combVars, convVars>>
    /\ UNCHANGED timerVars
    /\ UNCHANGED notifierVars
    /\ UNCHANGED reactorVars

\* the adapter, or the future of connect that holds it, is dropped
AsyncDrop(a) ==
    /\ asyncs[a].st \in {"live", "connecting"}
    /\ asyncs' = [asyncs EXCEPT ![a].st = "dropping", ![a].via = "drop",
                                ![a].todo = AsyncFields]
    /\ UNCHANGED <<registered, enabled, ioret>>
    /\ UNCHANGED <<timeoutVars, combVars, convVars>>
    /\ UNCHANGED timerVars
    /\ UNCHANGED notifierVars
    /\ UNCHANGED reactorVars

\* Async::into_inner: `inner` is moved out to be returned, the other fields
\* are dropped before the function returns
IntoInner(a) ==
    /\ asyncs[a].st = "live"
    /\ asyncs' = [asyncs EXCEPT ![a].st = "dropping", ![a].via = "into_inner",
                                ![a].owner = "moved",
                                ![a].todo = SelectSeq(AsyncFields,
                                                      LAMBDA f : f # "inner")]
    /\ UNCHANGED <<registered, enabled, ioret>>
    /\ UNCHANGED <<timeoutVars, combVars, convVars>>
    /\ UNCHANGED timerVars
    /\ UNCHANGED notifierVars
    /\ UNCHANGED reactorVars

\* the next field is dropped: GuardedHandle::drop deregisters the handle, the
\* drop of `inner` closes the descriptor; after the last one the value that
\* into_inner moved out is in the hands of the caller
DropField(a) ==
    /\ asyncs[a].st = "dropping"
    /\ asyncs[a].todo # <<>>
    /\ LET f == Head(asyncs[a].todo)
           rest == Tail(asyncs[a].todo)
       IN  /\ asyncs' = [asyncs EXCEPT
                           ![a].todo = rest,
                           ![a].fd = IF f = "inner" THEN "closed" ELSE @,
                           ![a].st = IF rest = <<>> THEN "dropped" ELSE @,
                           ![a].owner = IF f = "inner" THEN ""
                                        ELSE IF rest = <<>> /\ @ = "moved"
                                             THEN "caller" ELSE @]
           /\ IF f = "handle"
              THEN /\ registered' = Deregistered(registered, a)
                   /\ enabled' = DeregisteredEvents(enabled, a)
              ELSE UNCHANGED <<registered, enabled>>
    /\ UNCHANGED ioret
    /\ UNCHANGED <<timeoutVars, combVars, convVars>>
    /\ UNCHANGED timerVars
    /\ UNCHANGED notifierVars
    /\ UNCHANGED reactorVars

\* the caller of into_inner drops the value it got
CallerClose(a) ==
    /\ asyncs[a].owner = "caller"
    /\ asyncs[a].fd = "open"
    /\ asyncs' = [asyncs EXCEPT ![a].fd = "closed", ![a].owner = ""]
    /\ UNCHANGED <<registered, enabled, ioret>>
    /\ UNCHANGED <<timeoutVars, combVars, convVars>>
    /\ UNCHANGED timerVars
    /\ UNCHANGED notifierVars
    /\ UNCHANGED reactorVars

----------------------------------------------------------------------------
(* tests::flag_notifier: NumCallers threads call notify() on a new          *)
(* FlagNotifier, nothing clears it                                          *)

InitFlag ==
    /\ nkind \in NotifierKinds
    /\ NotifierNew
    /\ npc = [t \in Callers |-> "idle"]
    /\ ReactorIdle
    /\ TimerQueueNew
    /\ FutIdle

NextFlag ==
    \E t \in Callers :
        \/ NotifyCAS(t)
        \/ NotifyWrite(t)

SpecFlag == InitFlag /\ [][NextFlag]_vars

----------------------------------------------------------------------------
(* The reactor thread registering up to MaxReg sources per cycle and        *)
(* waiting, one other thread notifying                                      *)

\* the reactor types the source instantiates: UnixReactor on Linux and
\* elsewhere, and the reactors of the unit tests
ReactorTypes ==
    { <<"EventFd", "TimerFd">>, <<"PipeFd", "PollTimeout">>,
      <<"EventFd", "PollTimeout">> }

ReactorNew ==
    /\ \E ty \in ReactorTypes : nkind = ty[1] /\ tkind = ty[2]
    /\ NotifierNew
    /\ timerfd = "disarmed"
    /\ pollfds = <<>>
    /\ wakers = <<>>
    /\ rpc = "idle"
    /\ timeout = <<>>
    /\ res = "none"
    /\ woken = <<>>

InitReactor ==
    /\ ReactorNew
    /\ npc = [t \in {1} |-> "idle"]
    /\ TimerQueueNew
    /\ FutIdle

NextReactor ==
    \/ \E t \in DOMAIN npc : NotifyCAS(t)
    \/ \E t \in DOMAIN npc : NotifyWrite(t)
    \/ \E s \in Sources, interest \in Interests :
           Register(FdOf(s), interest, WakerOf(s))
    \/ \E duration \in Durations : WaitBegin(duration)
    \/ WaitSetTimeoutErr
    \/ \E cond \in [UserFds -> Conds] : PollReturn(cond)
    \/ PollErr
    \/ Dispatch
    \/ ClearRead
    \/ ClearStore
    \/ TimerFdExpire

SpecReactor == InitReactor /\ [][NextReactor]_vars

----------------------------------------------------------------------------
(* The reactor with wakers that notify it during the dispatch, NumThreads   *)
(* other threads notifying it between its waits only and none while it      *)
(* waits                                                                    *)

InitDispatch ==
    /\ nkind \in NotifierKinds
    /\ NotifierNew
    /\ npc = [t \in Threads |-> "idle"]
    /\ ReactorIdle
    /\ TimerQueueNew
    /\ FutIdle

NextDispatch ==
    \/ \E t \in DOMAIN npc : rpc = "idle" /\ NotifyCAS(t)
    \/ \E t \in DOMAIN npc : rpc = "idle" /\ NotifyWrite(t)
    \/ \E s \in Sources, interest \in Interests :
           Register(FdOf(s), interest, WakerOf(s))
    \/ \E duration \in Durations :
           (\A t \in DOMAIN npc : npc[t] # "write") /\ WaitBegin(duration)
    \/ \E cond \in [UserFds -> Conds] : PollReturn(cond)
    \/ DispatchNotifying
    \/ ClearRead
    \/ ClearStore

SpecDispatch == InitDispatch /\ [][NextDispatch]_vars

----------------------------------------------------------------------------
(* NumThreads threads notifying while the reactor thread waits, with at     *)
(* most one source registered per cycle                                     *)

InitNotify ==
    /\ ReactorNew
    /\ npc = [t \in Threads |-> "idle"]
    /\ TimerQueueNew
    /\ FutIdle

NextNotify ==
    \/ \E t \in DOMAIN npc : NotifyCAS(t)
    \/ \E t \in DOMAIN npc : NotifyWrite(t)
    \/ /\ wakers = <<>>
       /\ \E interest \in Interests : Register(FdOf("a"), interest, WakerOf("a"))
    \/ \E duration \in Durations : WaitBegin(duration)
    \/ WaitSetTimeoutErr
    \/ \E cond \in [UserFds -> Conds] : PollReturn(cond)
    \/ PollErr
    \/ Dispatch
    \/ ClearRead
    \/ ClearStore
    \/ TimerFdExpire

SpecNotify == InitNotify /\ [][NextNotify]_vars

\* the steps of wait() that nothing outside the reactor thread decides:
\* poll(2) returning for the notifier, the timerfd or the timeout alone,
\* and everything after poll(2)
ReactorStep ==
    \/ PollQuiet
    \/ Dispatch
    \/ ClearRead
    \/ ClearStore

\* every thread inside notify() gets to finish it, and the reactor thread
\* runs whenever it is not blocked in poll(2)
FairNotify ==
    /\ SpecNotify
    /\ \A t \in Threads : WF_vars(NotifyWrite(t))
    /\ WF_vars(ReactorStep)

----------------------------------------------------------------------------
(* A TimerQueue used directly, as the unit tests of timer.rs do *)

NotifierUnused ==
    /\ nkind = "EventFd"
    /\ NotifierNew
    /\ npc = <<>>

Ids == 1..IdMax

InitQueue ==
    /\ NotifierUnused
    /\ ReactorIdle
    /\ TimerQueueNew
    /\ FutIdle

NextQueue ==
    \/ \E expiry \in Times, waker \in TimerWakers : QRegister(expiry, waker)
    \/ \E id \in Ids, expiry \in Times, waker \in TimerWakers :
           QModify(id, expiry, waker)
    \/ \E id \in Ids, expiry \in Times : QCancel(id, expiry)
    \/ NextTimeoutCall
    \/ NextTimeoutIter
    \/ Tick

SpecQueue == InitQueue /\ [][NextQueue]_vars

----------------------------------------------------------------------------
(* The timer queue with its wakers being replaced, as in tests::modify      *)

InitModify == InitQueue

NextModify ==
    \/ \E expiry \in Times, waker \in TimerWakers : QRegister(expiry, waker)
    \/ \E id \in Ids, expiry \in Times, waker \in TimerWakers :
           QModifyObserved(id, expiry, waker)
    \/ NextTimeoutCall
    \/ NextTimeoutIter
    \/ Tick

SpecModify == InitModify /\ [][NextModify]_vars

----------------------------------------------------------------------------
(* NumTimers Timer futures created, polled and dropped by one task, which   *)
(* polls them all with its own waker, next_timeout() being called between   *)
(* the polls                                                                *)

InitTimer ==
    /\ NotifierUnused
    /\ ReactorIdle
    /\ now = 0
    /\ current_id = 1
    /\ nreg = 0
    /\ timers = {}
    /\ call = NoCall
    /\ fired = <<>>
    /\ gone = {}
    /\ tm = [i \in 1..NumTimers |->
                [st |-> "none", expiry |-> 0, timer_id |-> None, reg |-> None]]
    /\ FutIdle

NextTimer ==
    \/ \E i \in DOMAIN tm, expiry \in Times : TimerAt(i, expiry)
    \/ \E i \in DOMAIN tm : TimerPoll(i, TaskWaker)
    \/ \E i \in DOMAIN tm : TimerDrop(i)
    \/ NextTimeoutCall
    \/ NextTimeoutIter
    \/ Tick

SpecTimer == InitTimer /\ [][NextTimer]_vars

----------------------------------------------------------------------------
(* As many Timer futures as there are Ids, so that no Id is handed out      *)
(* twice, polled with changing wakers, next_timeout() being called between  *)
(* the polls                                                                *)

InitTimerWakers == InitTimer

NextTimerWakers ==
    \/ \E i \in Ids, expiry \in Times : TimerAt(i, expiry)
    \/ \E i \in Ids, waker \in TimerWakers : TimerPoll(i, waker)
    \/ NextTimeoutCall
    \/ NextTimeoutIter
    \/ Tick

SpecTimerWakers == InitTimerWakers /\ [][NextTimerWakers]_vars

----------------------------------------------------------------------------
(* One Timeout over any child future, polled at any time with any waker,    *)
(* next_timeout() being called between the polls                            *)

InitTimeout == InitTimer

NextTimeout ==
    \/ \E d \in Times : Timeout(d)
    \/ \E ready \in BOOLEAN, waker \in TimerWakers : TimeoutPoll(ready, waker)
    \/ TimeoutDrop
    \/ NextTimeoutCall
    \/ NextTimeoutIter
    \/ Tick

SpecTimeout == InitTimeout /\ [][NextTimeout]_vars

----------------------------------------------------------------------------
(* The executor drives a task that awaits a Timeout over a child that never *)
(* completes                                                                *)

InitExec == InitTimer

NextExec ==
    \/ \E d \in Times : ExecSpawn(d)
    \/ \E expiry \in Times : OtherTimer(expiry)
    \/ ExecStep
    \/ ChildWake
    \/ Tick

SpecExec == InitExec /\ [][NextExec]_vars

\* the loop of the executor keeps running, and the clock keeps advancing
FairExec == SpecExec /\ WF_vars(ExecStep) /\ WF_vars(Tick)

----------------------------------------------------------------------------
(* One combinator over NumChildren children, polled at any time             *)

InitComb == InitTimer

NextComb ==
    \/ \E rdy \in SUBSET Children : JoinFutureNew(rdy)
    \/ \E rdy \in SUBSET Children : MergeFutureStreamNew(rdy)
    \/ \E rdy \in SUBSET Children, items \in [Children -> StreamLens] :
          MergeStreamNew(rdy, items)
    \/ CombPoll
    \/ \E i \in Children : ChildReady(i)
    \/ \E i \in Children : ChildWakes(i)

SpecComb == InitComb /\ [][NextComb]_vars

(* A combinator that is polled with any waker, as when it moves to another task *)

InitCombWakers == InitTimer

NextCombWakers ==
    \/ \E rdy \in SUBSET Children : JoinFutureNew(rdy)
    \/ \E rdy \in SUBSET Children : MergeFutureStreamNew(rdy)
    \/ \E rdy \in SUBSET Children, items \in [Children -> StreamLens] :
          MergeStreamNew(rdy, items)
    \/ \E waker \in TimerWakers : CombPollWith(waker)
    \/ \E i \in Children : ChildReady(i)
    \/ \E i \in Children : ChildWakes(i)

SpecCombWakers == InitCombWakers /\ [][NextCombWakers]_vars

(* The executor drives a task that awaits a join of sleeping children *)

InitJoinExec == InitTimer

NextJoinExec ==
    \/ \E d \in [1..(NumChildren + 1) -> Sleeps] : JoinSleepsSpawn(d)
    \/ ExecPollJoin
    \/ ExecNextTimeout
    \/ JoinTimeoutIter
    \/ ExecWaitLogical

SpecJoinExec == InitJoinExec /\ [][NextJoinExec]_vars

\* the loop of the executor goes on
FairJoinExec == SpecJoinExec /\ WF_vars(ExecJoinStep)

(* merge_futures alone *)

NextMergeFutures ==
    \/ \E rdy \in SUBSET Children : MergeFutureStreamNew(rdy)
    \/ CombPoll
    \/ \E i \in Children : ChildReady(i)
    \/ \E i \in Children : ChildWakes(i)

SpecMergeFutures == InitComb /\ [][NextMergeFutures]_vars

\* the task keeps polling the stream and every child comes to be ready
FairMergeFutures ==
    /\ SpecMergeFutures
    /\ WF_vars(CombPoll)
    /\ \A i \in Children : WF_vars(ChildReady(i))

----------------------------------------------------------------------------
(* Async adapters through their lives                                       *)

InitIo == InitTimer

NextIo ==
    \/ \E a \in Adapters : AsyncNew(a)
    \/ \E a \in Adapters : AsyncNewErr(a)
    \/ \E a \in Adapters : Connect(a)
    \/ \E a \in Adapters, interest \in IoInterests, waker \in TimerWakers,
          outs \in IoResults \X IoResults : IoPoll(a, interest, waker, outs)
    \/ \E a \in Adapters : AsyncDrop(a)
    \/ \E a \in Adapters : IntoInner(a)
    \/ \E a \in Adapters : DropField(a)
    \/ \E a \in Adapters : CallerClose(a)

SpecIo == InitIo /\ [][NextIo]_vars

----------------------------------------------------------------------------
(* Timeout::set_timeout of both implementations, applied to a duration      *)

InitSetTimeout ==
    /\ NotifierUnused
    /\ ReactorIdle
    /\ TimerQueueNew
    /\ TaskIdle
    /\ \E duration \in ConvDurations :
          conv = [NoConv EXCEPT !.st = "arg", !.duration = duration]

NextSetTimeout ==
    \/ PollTimeoutSetTimeout
    \/ TimerFdSetTimeout

SpecSetTimeout == InitSetTimeout /\ [][NextSetTimeout]_vars

----------------------------------------------------------------------------
(* Properties of the notifier and the reactor *)

NoCallInFlight == \A t \in DOMAIN npc : npc[t] # "write"

\* C1: with nothing clearing the notifier, the descriptor is never written
\* more than once, and once some notify() has returned and none is in
\* flight it has been written exactly once and the flag is set
C1_NotifyWritesOnce ==
    /\ unread <= 1
    /\ (\E t \in DOMAIN npc : npc[t] = "done") /\ NoCallInFlight
           => unread = 1 /\ is_notified

C1_AllCallersReturned ==
    /\ \A t \in DOMAIN npc : npc[t] = "done"
    /\ Cardinality(DOMAIN npc) >= 2
    /\ unread = 1

\* C2: the notifier descriptor never holds more than one unread
\* notification, whatever the interleaving of notify() with wait()
C2_AtMostOneUnread == unread <= 1

\* C3: a wait() that is blocked in poll while a notification is outstanding
\* (the flag is set: a notify() was issued since the notifier was last
\* cleared) eventually returns
C3_NotifiedWaitReturns == (rpc = "poll" /\ is_notified) ~> (rpc = "idle")

C3_BlockedWhileNotifying ==
    /\ rpc = "poll"
    /\ timeout = <<-1>>
    /\ timerfd = "disarmed"
    /\ is_notified
    /\ unread = 0
    /\ \E t \in DOMAIN npc : npc[t] = "write"

IsReady(i) == pollfds[i].revents \cap WakeFlags # {}
WasInvoked(i) == \E k \in 1..Len(woken) : woken[k] = <<i, wakers[i]>>

\* C4: when wait() has gone through poll and the match on its result, the
\* waker of every registered entry that reported one of IN, OUT, HUP, ERR,
\* PRI has been invoked, no entry that reported nothing had its waker
\* invoked for it, and nothing else was invoked
C4_ReadyEntriesWoken ==
    rpc \in {"clear", "clear_store"} =>
        /\ \A i \in 1..Len(wakers) : IsReady(i) => WasInvoked(i)
        /\ \A i \in 1..Len(wakers) : pollfds[i].revents = {} => ~WasInvoked(i)
        /\ \A k \in 1..Len(woken) :
               \E i \in 1..Len(wakers) : woken[k] = <<i, wakers[i]>> /\ IsReady(i)
        /\ (\A i \in 1..Len(wakers) : pollfds[i].revents = {}) => woken = <<>>

C4_OneOfTwoWoken ==
    /\ rpc = "clear"
    /\ Len(wakers) = 2
    /\ wakers[1] # wakers[2]
    /\ pollfds[1].revents = {}
    /\ pollfds[2].revents = {"HUP"}
    /\ pollfds[3].revents = {"IN"}
    /\ woken = <<(<<2, wakers[2]>>)>>

\* C5: when wait() has returned, with Ok or with Err, the poll-entry list
\* and the waker list are empty
C5_ListsEmptyAfterWait ==
    res \in {"ok", "err"} => pollfds = <<>> /\ wakers = <<>>

C5_ReturnedErr ==
    /\ res = "err"
    /\ tkind = "PollTimeout"
    /\ pollfds = <<>>
    /\ wakers = <<>>

----------------------------------------------------------------------------
(* Properties of the timer queue and of Timer *)

FiredSet == {fired[k] : k \in 1..Len(fired)}

\* C6: when next_timeout() has returned, `at` being the clock value it read
\* last, every entry that was in the queue with expiry <= at has had its
\* waker invoked, once, and is removed; every entry with expiry > at is
\* still in the queue and was not invoked; the result is None when the
\* queue is empty and otherwise Some(earliest remaining expiry - at) > 0
C6_NextTimeoutFiresExpired ==
    call.op = "next_timeout" /\ call.pc = "returned" =>
        /\ \A e \in call.before :
               e.expiry <= call.at => e \in FiredSet /\ e \notin timers
        /\ \A e \in call.before :
               e.expiry > call.at => e \in timers /\ e \notin FiredSet
        /\ timers \subseteq call.before
        /\ FiredSet \subseteq call.before
        /\ Len(fired) = Cardinality(FiredSet)
        /\ timers = {} => call.ret = <<>>
        /\ timers # {} =>
               /\ call.ret # <<>>
               /\ call.ret[1] > 0
               /\ \E e \in timers : call.ret[1] = e.expiry - call.at
               /\ \A e \in timers : call.ret[1] <= e.expiry - call.at

C6_SomeFiredSomeLeft ==
    /\ call.op = "next_timeout"
    /\ call.pc = "returned"
    /\ Len(fired) = 2
    /\ \E e \in FiredSet : e.expiry = call.at
    /\ timers # {}
    /\ call.ret = <<1>>

\* the wakers one next_timeout() call invokes are invoked in strictly
\* increasing order of expiry, and in increasing order of id among equal
\* expiries
FiredInKeyOrder ==
    \A j, k \in 1..Len(fired) :
        j < k =>
            \/ fired[j].expiry < fired[k].expiry
            \/ fired[j].expiry = fired[k].expiry /\ fired[j].id < fired[k].id

\* how many times the id counter had started again before the n-th
\* register() call
Lap(n) == (n - 1) \div IdMax

\* C7 as stated: the wakers one next_timeout() call invokes are invoked in
\* strictly increasing order of expiry, and among equal expiries in
\* increasing order of id, which is the order of their registration
C7_FiredInRegistrationOrder ==
    /\ FiredInKeyOrder
    /\ \A j, k \in 1..Len(fired) :
           j < k /\ fired[j].expiry = fired[k].expiry => fired[j].n < fired[k].n

\* C7 as amended: the wakers one next_timeout() call invokes are invoked in
\* strictly increasing order of expiry, and among equal expiries in
\* increasing order of id, which is the order of their registration for
\* entries registered without the id counter starting again in between
C7_FiredInKeyOrder ==
    /\ FiredInKeyOrder
    /\ \A j, k \in 1..Len(fired) :
           /\ j < k
           /\ fired[j].expiry = fired[k].expiry
           /\ Lap(fired[j].n) = Lap(fired[k].n)
           => fired[j].n < fired[k].n

C7_ThreeFired ==
    /\ Len(fired) = 3
    /\ fired[1].n > fired[2].n
    /\ fired[1].expiry < fired[2].expiry
    /\ fired[2].expiry = fired[3].expiry
    /\ fired[2].id < fired[3].id
    /\ Lap(fired[2].n) = Lap(fired[3].n)

Resolved(i) == tm[i].st = "ready"
Finished(i) == tm[i].st \in {"ready", "dropped"}

\* C8: a poll of a Timer returns Ready exactly when the clock has reached
\* its expiry; a resolved Timer holds no id; a Timer that resolves at its
\* first poll has never registered and that poll leaves the queue as it was
C8_TimerReadyIffExpired ==
    /\ [][\A i \in DOMAIN tm :
              TimerPoll(i, TaskWaker) =>
                  /\ tm'[i].st \in {"pending", "ready"}
                  /\ tm'[i].st = "ready" <=> tm[i].expiry <= now
                  /\ tm[i].st = "new" /\ tm'[i].st = "ready" =>
                         tm'[i].reg = <<>> /\ timers' = timers /\ nreg' = nreg]_vars
    /\ [](\A i \in DOMAIN tm : Resolved(i) => tm[i].timer_id = <<>>)

C8_ResolvedBothWays ==
    /\ \E i \in DOMAIN tm :
           Resolved(i) /\ tm[i].reg # <<>> /\ tm[i].expiry = now
    /\ \E j \in DOMAIN tm : Resolved(j) /\ tm[j].reg = <<>>

\* C9: once a Timer has resolved or been dropped the queue holds no entry
\* that it registered, and none of the wakers next_timeout() has invoked
\* since then is that entry's
C9_FinishedTimerNotInQueue ==
    \A i \in DOMAIN tm :
        Finished(i) /\ tm[i].reg # <<>> =>
            /\ \A e \in timers : e.n # tm[i].reg[1]
            /\ \A k \in 1..Len(fired) : fired[k].n # tm[i].reg[1]

C9_DroppedThenSwept ==
    /\ call.op = "next_timeout"
    /\ call.pc = "returned"
    /\ fired # <<>>
    /\ \E i \in DOMAIN tm :
           /\ tm[i].st = "dropped"
           /\ tm[i].reg # <<>>
           /\ \E g \in gone : g[3] = tm[i].reg[1] /\ g[1] <= call.at

\* C10: cancel(id, expiry) leaves the queue as it was less the entry keyed
\* (expiry, id), so a call for a key that is not in the queue (cancelled
\* before, or fired) changes nothing; an entry cancel() removed is not in
\* the queue afterwards and its waker is not invoked afterwards
C10_CancelRemovesExactlyKey ==
    /\ call.op = "cancel" =>
           /\ timers = {e \in call.before :
                            ~(e.expiry = call.key[1] /\ e.id = call.key[2])}
           /\ (\A e \in call.before : Key(e) # call.key) => timers = call.before
    /\ \A e \in timers : \A g \in gone : e.n # g[3]
    /\ \A k \in 1..Len(fired) : \A g \in gone : fired[k].n # g[3]

C10_SecondCancel ==
    /\ call.op = "cancel"
    /\ \E g \in gone : <<g[1], g[2]>> = call.key
    /\ timers = call.before
    /\ Cardinality(timers) = 2
    /\ \E e \in timers : e.expiry = call.key[1]

----------------------------------------------------------------------------
(* Properties of Timeout *)

\* C11: every poll of a Timeout polls the child first; it returns Ok exactly
\* when the child is Ready at that poll, whether or not the deadline has
\* passed; Err(TimedOut) exactly when the child is Pending and the clock has
\* reached the deadline; and Pending otherwise
C11_TimeoutChildFirst ==
    tmo.out # "" =>
        /\ tmo.order # <<>>
        /\ tmo.order[1] = "fut"
        /\ tmo.out = "Ok" <=> tmo.child = "Ready"
        /\ tmo.out = "Err" <=> tmo.child = "Pending" /\ tmo.since + tmo.d <= tmo.at
        /\ tmo.out = "Pending" <=> tmo.child = "Pending" /\ tmo.since + tmo.d > tmo.at

C11_OkAfterDeadline ==
    /\ tmo.out = "Ok"
    /\ tmo.since + tmo.d <= tmo.at
    /\ tmo.d > 0
    /\ tm[1].reg # <<>>

\* C12: driven by the loop of the executor, a Timeout of d over a child that
\* never completes eventually resolves to Err(TimedOut); it resolves once, not
\* before d has elapsed since its creation, and the timer queue holds no entry
\* of it once it has resolved
C12_TimeoutFires ==
    /\ (tmo.st = "new") ~> (tmo.out = "Err")
    /\ [](tmo.n <= 1)
    /\ [](tmo.out = "Err" =>
            /\ tmo.n = 1
            /\ tmo.since + tmo.d <= tmo.at
            /\ \A e \in timers : e.waker # TaskWaker)

C12_WokenByTimerQueue ==
    /\ tmo.out = "Err"
    /\ tmo.d > 0
    /\ tm[1].reg # None
    /\ gone = {}

----------------------------------------------------------------------------
(* Properties of the combinators *)

\* C13: a poll of a JoinFuture returns Ready exactly when every child has
\* returned Ready, at this poll or at an earlier one, and Pending otherwise;
\* the array it returns holds at index i the output of child i
C13_JoinReadyWhenAllReady ==
    comb.kind = "join" /\ obs.polls > 0 =>
        /\ obs.ret \in {"Ready", "Pending"}
        /\ obs.ret = "Ready" <=> \A i \in Children : obs.lastres[i] = "Ready"
        /\ obs.ret = "Ready" => \A i \in Children : obs.val[i] = Item(i, 1)

C13_JoinedOverTwoPolls ==
    /\ comb.kind = "join"
    /\ obs.ret = "Ready"
    /\ obs.polls > 1
    /\ Len(obs.log) < NumChildren

\* a child is polled only when its flag is set, the flag being cleared before
\* the poll; after it returned Pending it is polled again only when its
\* trampoline waker has been invoked since
PolledOnlyWhenAwoken ==
    \A n \in 1..Len(obs.log) :
        LET e == obs.log[n]
        IN  /\ e.polled => e.awoken /\ e.cleared
            /\ e.polled /\ e.prev = "Pending" => e.inv

\* C14 as stated: in join, merge_futures and merge_streams a child is polled
\* only when its flag is set; every child is polled on the first poll of the
\* combinator, and a child that returned Pending is not polled again until its
\* trampoline waker has been invoked
C14_EveryChildPolledFirst ==
    comb.kind # "none" =>
        /\ PolledOnlyWhenAwoken
        /\ obs.polls = 1 => \A i \in Children : obs.lastres[i] # "none"

\* C14: in join, merge_futures and merge_streams a child is polled only when
\* its flag is set; every child is polled the first time a poll of the
\* combinator reaches it, which for join is the first poll, and a child that
\* returned Pending is not polled again until its trampoline waker has been
\* invoked
C14_PolledWhenFirstReached ==
    comb.kind # "none" =>
        /\ PolledOnlyWhenAwoken
        /\ \A n \in 1..Len(obs.log) : obs.log[n].first => obs.log[n].polled
        /\ comb.kind = "join" /\ obs.polls > 0 =>
               \A i \in Children : obs.lastres[i] # "none"

C14_OneChildSkipped ==
    /\ comb.kind = "merge_streams"
    /\ \E n \in 1..Len(obs.log) :
          obs.log[n].prev = "Pending" /\ ~obs.log[n].polled
    /\ \E n \in 1..Len(obs.log) :
          obs.log[n].prev = "Pending" /\ obs.log[n].polled

\* C15: when every child comes to complete, merge_futures yields one value
\* per child, the output of each child once, and then None; it never returns
\* None while a child has not returned Ready, and never Pending once all have
C15_MergeFuturesYieldsAll ==
    /\ (comb.kind = "merge_futures") ~> (obs.ret = "None")
    /\ [](comb.kind = "merge_futures" =>
            /\ Len(obs.yielded) <= NumChildren
            /\ \A j \in 1..Len(obs.yielded) :
                   /\ \E i \in Children : obs.yielded[j] = Item(i, 1)
                   /\ \A n \in 1..Len(obs.yielded) :
                          n # j => obs.yielded[n] # obs.yielded[j]
            /\ obs.ret = "None" =>
                   /\ Len(obs.yielded) = NumChildren
                   /\ \A i \in Children : obs.lastres[i] = "Ready"
            /\ obs.ret = "Pending" =>
                   \E i \in Children : obs.lastres[i] # "Ready")

C15_AllYieldedThenNone ==
    /\ comb.kind = "merge_futures"
    /\ obs.ret = "None"
    /\ Len(obs.yielded) = NumChildren
    /\ \E i \in Children : obs.rtime[i] > 0

\* C16: merge_futures yields the outputs in the order in which the children
\* became ready: a child that became ready before another one has its output
\* yielded before the other's, whatever their slots and whenever the stream is
\* polled
C16_YieldedInReadyOrder ==
    comb.kind = "merge_futures" =>
        \A j, n \in 1..Len(obs.yielded) :
            j < n => obs.rtime[obs.yielded[j].child] <= obs.rtime[obs.yielded[n].child]

\* C17: in merge_streams a slot is vacant only when its child has yielded
\* None; every item a child has yielded was yielded by the merged stream, in
\* the order of that child; and the merged stream returns None only when every
\* child has yielded None
C17_MergeStreamsKeepsItems ==
    comb.kind = "merge_streams" =>
        /\ \A i \in Children : comb.pollers[i] = None <=> obs.lastres[i] = "None"
        /\ obs.inorder
        /\ \A i \in Children : obs.got[i] = kids.given[i]
        /\ obs.ret = "None" => \A i \in Children : obs.lastres[i] = "None"

C17_TwoStreamsDrained ==
    /\ comb.kind = "merge_streams"
    /\ obs.ret = "None"
    /\ \E i, j \in Children :
          i # j /\ obs.got[i] = MaxItems /\ obs.got[j] = MaxItems

\* C18: the child polled first rotates with every value yielded, so that a
\* child stream that is always ready does not yield two values in a row while
\* another child is ready as well
C18_NoTwoInARow ==
    comb.kind = "merge_streams" =>
        ~(obs.row.n = 2 /\ obs.row.others # {})

----------------------------------------------------------------------------
(* Properties of the I/O adapter *)

\* C19: one poll of an operation of an adapter attempts the operation once;
\* when it succeeds the poll returns Ready(Ok) and enables nothing; when it
\* would block the poll enables (handle, interest, waker of this poll) and
\* returns Pending; on any other error the poll returns Ready(Err) with that
\* error and enables nothing
C19_PollEventOnce ==
    ioret.a # 0 =>
        /\ ioret.attempts = 1
        /\ ioret.removed = {}
        /\ ioret.out = "Ok" =>
               ioret.ret = <<"Ready", "Ok">> /\ ioret.added = {}
        /\ ioret.out = "WouldBlock" =>
               /\ ioret.ret = <<"Pending">>
               /\ ioret.added \subseteq {<<ioret.a, ioret.interest, ioret.waker>>}
               /\ ioret.on
        /\ ioret.out \notin {"Ok", "WouldBlock"} =>
               ioret.ret = <<"Ready", "Err", ioret.out>> /\ ioret.added = {}

C19_SecondWakerEnabled ==
    /\ ioret.out = "WouldBlock"
    /\ ioret.added # {}
    /\ \E e \in enabled :
          e[1] = ioret.a /\ e[2] = ioret.interest /\ e[3] # ioret.waker

\* C20: however an adapter ends (dropped, taken apart by into_inner, dropped
\* by connect on its error), its EventHandle is deregistered before its
\* descriptor is closed or in the hands of the caller, who may close it
C20_DeregisteredBeforeClose ==
    \A a \in Adapters :
        asyncs[a].fd = "closed" \/ asyncs[a].owner = "caller" =>
            /\ a \notin registered
            /\ \A e \in enabled : e[1] # a

C20_ClosedAfterConnectErr ==
    \E a \in Adapters :
        /\ asyncs[a].via = "connect"
        /\ asyncs[a].fd = "closed"

----------------------------------------------------------------------------
(* Properties of Timeout::set_timeout *)

\* the milliseconds of d rounded up, as far as i32 goes
CeilMillis(d) ==
    IF d.nanos % NanosPerMilli = 0
    THEN MillisAsI32(d)
    ELSE SaturatingAdd(MillisAsI32(d), 1)

\* C21: PollTimeout::set_timeout returns -1 for None, 0 for Some(0), 1 for a
\* duration between 0 and 1 ms, and in general the milliseconds of the
\* duration, rounded up only when there is a part below the millisecond (m
\* whole milliseconds give m), saturated at i32::MAX
C21_PollTimeoutRoundsUp ==
    conv.ms # <<>> =>
        IF conv.duration = None
        THEN conv.ms[1] = -1
        ELSE conv.ms[1] = CeilMillis(conv.duration[1])

\* value >= d, both as seconds and nanoseconds
NotShorter(value, d) ==
    \/ ~U64Leq(value.tv_sec, d.secs)
    \/ value.tv_sec = d.secs /\ value.tv_nsec >= d.nanos

\* C30: TimerFd::set_timeout returns -1 whatever the duration; None programs
\* the zero value, which disarms the timer, Some(0) programs 1 ns, and every
\* Some(d) programs a value that is not zero and not shorter than d, its
\* seconds being those of d or i64::MAX when they do not fit
C30_TimerFdNeverShorter ==
    conv.ret # <<>> =>
        /\ conv.ret[1] = -1
        /\ conv.duration = None =>
               /\ conv.value[1] = [tv_sec |-> U64From(0), tv_nsec |-> 0]
               /\ TimerFdSettime(conv.value[1]) = "disarmed"
        /\ conv.duration = Some(Duration(U64From(0), 0)) =>
               conv.value[1] = [tv_sec |-> U64From(0), tv_nsec |-> 1]
        /\ conv.duration # None =>
               LET d == conv.duration[1]
                   value == conv.value[1]
               IN  /\ TimerFdSettime(value) = "armed"
                   /\ value.tv_nsec < MillisPerSec * NanosPerMilli
                   /\ U64Leq(value.tv_sec, I64Max)
                   /\ IF U64Leq(d.secs, I64Max)
                      THEN NotShorter(value, d)
                      ELSE value.tv_sec = I64Max

C30_WholeSecondsArmed ==
    /\ conv.ret # <<>>
    /\ conv.duration # None
    /\ conv.duration[1].secs = U64From(1)
    /\ conv.duration[1].nanos = 0
    /\ conv.value[1].tv_nsec = 1

----------------------------------------------------------------------------
(* Properties of the state of the combinators *)

\* C22: the slots of a combinator are partitioned. In join every slot holds
\* either a child that has not returned Ready or the Done output of its child;
\* in merge_futures and merge_streams every slot holds a child that has not
\* finished or is vacant, none_count is the number of vacant slots, between 0
\* and N, and idx is within [0, N)
C22_SlotsPartitioned ==
    /\ comb.kind = "join" /\ comb.pollers # None =>
           /\ DOMAIN comb.pollers = Children
           /\ \A i \in Children :
                 \/ comb.pollers[i] = <<"Fut">> /\ obs.lastres[i] # "Ready"
                 \/ comb.pollers[i] = <<"Done", Item(i, 1)>> /\ obs.lastres[i] = "Ready"
    /\ comb.kind \in {"merge_futures", "merge_streams"} =>
           LET vacant == {i \in Children : comb.pollers[i] = None}
               pending == {i \in Children : comb.pollers[i] # None}
           IN  /\ DOMAIN comb.pollers = Children
               /\ \A i \in Children :
                     comb.pollers[i] = None <=> obs.lastres[i] \in {"Ready", "None"}
               /\ Cardinality(pending) + Cardinality(vacant) = NumChildren
               /\ comb.none_count = Cardinality(vacant)
               /\ comb.none_count \in 0..NumChildren
               /\ comb.idx \in 0..(NumChildren - 1)

C22_OneVacantIdxMoved ==
    /\ comb.kind = "merge_streams"
    /\ comb.none_count = 1
    /\ comb.idx # 0
    /\ \E i \in Children : comb.pollers[i] # None /\ obs.got[i] > 0

IsMerged(kind) == kind \in {"merge_futures", "merge_streams"}

\* C23: when poll_next of a merged stream yields a value from slot k, the
\* awoken flag of slot k is set again and idx is left at k, so the next
\* poll_next visits slot k first, and polls its child first if the slot is
\* still occupied; when poll_next returns Pending, idx is what it was before
\* the call
C23_YielderFirstNext ==
    [][CombPoll /\ IsMerged(comb.kind) =>
          /\ obs'.ret = "Some" =>
                /\ comb'.idx = obs'.row.i
                /\ comb'.wakers[obs'.row.i] = Some(TRUE)
          /\ obs'.ret = "Pending" => comb'.idx = comb.idx
          /\ obs.ret = "Some" =>
                /\ ScanOrder(comb.idx)[1] = obs.row.i
                /\ comb.wakers[obs.row.i] = Some(TRUE)
                /\ comb.pollers[obs.row.i] # None =>
                      /\ obs'.log # <<>>
                      /\ obs'.log[1].i = obs.row.i
                      /\ obs'.log[1].polled]_vars

C23_SecondSlotTwice ==
    /\ comb.kind = "merge_streams"
    /\ obs.ret = "Some"
    /\ obs.row.i = 1
    /\ obs.row.n = 2
    /\ comb.idx = 1

\* the place of slot i in a scan that starts at slot idx and wraps around
Pos(i, idx) == (i + NumChildren - idx) % NumChildren

\* C24: one poll_next visits the children in slot order from idx, wrapping
\* around once, leaving out no occupied slot on its way; the first child that
\* yields a value ends the call, and the children after it in that order are
\* not polled in that call and keep their awoken flags and their state
C24_ScanStopsAtFirstValue ==
    [][CombPoll /\ IsMerged(comb.kind) =>
          LET log == obs'.log
              visited == {log[a].i : a \in DOMAIN log}
              last == IF obs'.ret = "Some" THEN Pos(obs'.row.i, comb.idx)
                      ELSE NumChildren - 1
          IN  /\ \A a, b \in DOMAIN log :
                    a < b => Pos(log[a].i, comb.idx) < Pos(log[b].i, comb.idx)
              /\ \A i \in Children :
                    /\ i \in visited => comb.pollers[i] # None
                    /\ comb.pollers[i] # None /\ Pos(i, comb.idx) <= last
                           /\ obs'.ret # "None" => i \in visited
              /\ obs'.ret = "Some" =>
                    /\ log # <<>>
                    /\ log[Len(log)].i = obs'.row.i
                    /\ log[Len(log)].polled
                    /\ \A i \in Children :
                          Pos(i, comb.idx) > last =>
                              /\ i \notin visited
                              /\ comb'.wakers[i] = comb.wakers[i]
                              /\ comb'.pollers[i] = comb.pollers[i]
                              /\ kids'.avail[i] = kids.avail[i]
                              /\ kids'.left[i] = kids.left[i]
                              /\ obs'.lastres[i] = obs.lastres[i]]_vars

C24_AwokenChildLeftForNextCall ==
    /\ IsMerged(comb.kind)
    /\ obs.ret = "Some"
    /\ obs.row.i = 1
    /\ comb.pollers[0] # None
    /\ comb.wakers[0] = Some(TRUE)
    /\ obs.lastres[0] = "Pending"
    /\ \A a \in DOMAIN obs.log : obs.log[a].i # 0

----------------------------------------------------------------------------
(* Properties of TimerQueue::modify and of the entry of a Timer *)

\* C25: modify(id, deadline, w) replaces the waker stored under the key
\* (deadline, id) and nothing else: the keys and every other entry stay as
\* they are, and nothing is inserted for a missing key, the queue staying as
\* it is; the waker that next_timeout invokes for an entry is the one stored
\* in the queue, so after modify w fires and the waker it replaced does not
C25_ModifyReplacesWakerOnly ==
    [][/\ call'.op = "modify" /\ QModifyObserved(call'.key[2], call'.key[1], call'.waker) =>
             LET key == call'.key
                 waker == call'.waker
             IN  /\ {Key(e) : e \in timers'} = {Key(e) : e \in timers}
                 /\ \A e \in timers : Key(e) # key => e \in timers'
                 /\ \A e \in timers :
                       Key(e) = key =>
                           /\ [e EXCEPT !.waker = waker] \in timers'
                           /\ e.waker # waker => e \notin timers'
                 /\ Cardinality(timers') = Cardinality(timers)
                 /\ (\A e \in timers : Key(e) # key) => timers' = timers
       /\ Len(fired') = Len(fired) + 1 =>
             /\ fired'[Len(fired')] \in timers
             /\ fired'[Len(fired')] \notin timers'
             /\ \A e \in timers' : Key(e) # Key(fired'[Len(fired')])]_vars

C25_WakerReplaced ==
    /\ call.op = "modify"
    /\ call.waker = "w2"
    /\ Cardinality(timers) > 1
    /\ \E e \in call.before, f \in timers :
          /\ Key(e) = call.key
          /\ Key(f) = call.key
          /\ e.waker # f.waker

\* the entries of the queue stored for Timer i
EntriesOf(q, i) ==
    {e \in q : tm[i].reg # None /\ e.n = tm[i].reg[1]}

\* no Id has been handed out twice
NoWrapAround == nreg <= IdMax

\* C26: while no Id has been handed out twice, whatever Timers are polled
\* and whenever next_timeout() is called, every Timer has at most one entry
\* in the queue, under its key (deadline, id), and every entry is that of a
\* Timer holding its id; a Timer that holds an id before its deadline has its
\* entry in the queue, so a poll that returns Pending again modifies an
\* existing key; and the entry carries the waker of the last poll of its
\* Timer: the poll stores it, and no other step changes it
C26_TimerEntryKept ==
    [][NoWrapAround =>
          /\ \A i \in DOMAIN tm :
                /\ Cardinality(EntriesOf(timers, i)) <= 1
                /\ \A e \in EntriesOf(timers, i) :
                      /\ tm[i].timer_id = Some(e.id)
                      /\ tm[i].expiry = e.expiry
                /\ tm[i].timer_id # None /\ now < tm[i].expiry =>
                      \E e \in EntriesOf(timers, i) :
                          Key(e) = <<tm[i].expiry, tm[i].timer_id[1]>>
                /\ \A e \in EntriesOf(timers, i) :
                      \A f \in timers' :
                          /\ f.n = e.n
                          /\ \A w \in TimerWakers : ~TimerPoll(i, w)
                          => f = e
                /\ \A w \in TimerWakers :
                      TimerPoll(i, w) /\ tm'[i].st = "pending" =>
                          /\ tm[i].timer_id # None =>
                                /\ tm'[i].timer_id = tm[i].timer_id
                                /\ \E e \in timers :
                                      Key(e) = <<tm[i].expiry, tm[i].timer_id[1]>>
                                /\ nreg' = nreg
                          /\ \E f \in timers' :
                                /\ Key(f) = <<tm'[i].expiry, tm'[i].timer_id[1]>>
                                /\ f.n = tm'[i].reg[1]
                                /\ f.waker = w
          /\ \A e \in timers : \E i \in DOMAIN tm : e \in EntriesOf(timers, i)]_vars

C26_TwoEntriesTwoWakers ==
    /\ NoWrapAround
    /\ nreg = 2
    /\ \E i, j \in DOMAIN tm :
          /\ i # j
          /\ tm[i].st = "pending"
          /\ tm[j].st = "pending"
          /\ \E e \in EntriesOf(timers, i), f \in EntriesOf(timers, j) :
                /\ e.waker # f.waker
                /\ e.n = 1
                /\ e.waker = "w2"
                /\ f.waker = "w1"

----------------------------------------------------------------------------
(* Properties of the dispatch of wait() *)

\* C27: after every register() the poll list and the waker list have the same
\* length, entry i of the one belonging to the same registration as entry i
\* of the other (wait() appends its own entries behind them); and the wakers
\* that one wait() invokes are those of the ready entries, each once, in the
\* order in which the registrations of that cycle were made
C27_WokenInRegistrationOrder ==
    /\ rpc = "idle" => Len(pollfds) = Len(wakers)
    /\ rpc # "idle" => Len(pollfds) = Len(wakers) + Len(OwnEntries)
    /\ \A i \in 1..Len(wakers) :
          \E s \in Sources : pollfds[i].fd = FdOf(s) /\ wakers[i] = WakerOf(s)
    /\ \A k \in DOMAIN woken :
          /\ woken[k][1] \in 1..Len(wakers)
          /\ woken[k][2] = wakers[woken[k][1]]
          /\ pollfds[woken[k][1]].revents \cap WakeFlags # {}
    /\ \A a, b \in DOMAIN woken : a < b => woken[a][1] < woken[b][1]
    /\ woken # <<>> =>
          \A i \in 1..Len(wakers) :
              pollfds[i].revents \cap WakeFlags # {} =>
                  \E k \in DOMAIN woken : woken[k][1] = i

C27_SecondRegisteredFirst ==
    /\ Len(woken) = 2
    /\ woken[1] = <<1, WakerOf("b")>>
    /\ woken[2] = <<2, WakerOf("a")>>

\* C28: the wakers that wait() invokes find the notified flag set, so their
\* calls of notify() write nothing to the descriptor of the notifier; and
\* when wait() returns Ok, no other thread having called notify() while it
\* ran, the flag is false and the descriptor drained, so that of the calls of
\* notify() that follow the first one writes, once, and the others do not
C28_DispatchWritesNothing ==
    [][/\ \A k \in DOMAIN woken' : woken'[k][3] = FALSE
       /\ DispatchNotifying => is_notified' /\ unread' = unread
       /\ rpc = "clear_store" /\ rpc' = "idle" =>
             /\ res' = "ok"
             /\ is_notified' = FALSE
             /\ unread' = 0
       /\ \A t \in DOMAIN npc :
             /\ NotifyCAS(t) =>
                   /\ unread <= 1
                   /\ npc'[t] = "write" <=> unread = 0 /\ \A u \in DOMAIN npc : npc[u] # "write"
             /\ NotifyWrite(t) => unread = 0 /\ unread' = 1]_vars

C28_WakersNotifiedDuringDispatch ==
    /\ rpc = "clear"
    /\ Len(woken) = 2
    /\ is_notified
    /\ unread = 1
    /\ \E t \in DOMAIN npc : npc[t] = "done"

\* C29: when a child invokes its trampoline waker, the wake goes to the waker
\* with which the combinator was polled most recently, also when that waker is
\* not the one of its first poll
C29_ForwardsToLatestWaker == obs.fwd # "" => obs.fwd = obs.cx

\* a child invoked the trampoline waker it got at a poll with another waker
\* than the one of the most recent poll
C29_WokenAfterPollWithOtherWaker ==
    /\ obs.fwd # ""
    /\ \E i \in Children :
          /\ obs.invoked[i]
          /\ comb.parent[i] # None
          /\ comb.parent[i][1] # obs.cx

\* C32: no combinator polls a child that has completed: in every poll of a
\* join, a merge_futures or a merge_streams, a child that is polled had not
\* returned Ready (a future) or None (a stream) at any poll before
C32_CompletedChildNotPolled ==
    \A n \in DOMAIN obs.log :
        obs.log[n].polled => obs.log[n].prev \notin {"Ready", "None"}

\* a poll of the combinator went past a child that had completed at an earlier
\* poll, and polled another child that was pending
C32_FinishedChildPassedOver ==
    /\ obs.polls >= 2
    /\ \E i \in Children :
          /\ obs.lastres[i] \in {"Ready", "None"}
          /\ \A n \in DOMAIN obs.log : obs.log[n].i # i
    /\ \E n \in DOMAIN obs.log : obs.log[n].polled /\ obs.log[n].prev = "Pending"

\* C34: once a merge_futures or merge_streams stream has returned None, every
\* later poll_next returns None again and polls no child, and the counter of
\* finished children stays at the number of children
C34_NoneForEver ==
    [][IsMerged(comb.kind) /\ obs.ret = "None" =>
          /\ comb'.kind = comb.kind
          /\ comb'.none_count = NumChildren
          /\ comb'.pollers = [i \in Children |-> None]
          /\ obs'.ret = "None"
          /\ \A n \in DOMAIN obs'.log : ~obs'.log[n].polled
          /\ obs'.lastres = obs.lastres]_vars

\* a merge_streams that yielded every item of a stream and returned None was
\* polled again: it returned None after going through vacated slots only
C34_PolledAfterNone ==
    /\ comb.kind = "merge_streams"
    /\ obs.ret = "None"
    /\ obs.polls >= 2
    /\ obs.log = <<>>
    /\ comb.none_count = NumChildren
    /\ \E i \in Children : obs.got[i] = MaxItems

\* C33: no wake-up is lost inside a combinator: once the trampoline waker of a
\* child was invoked after the flag was cleared for the child's latest poll,
\* the flag is set; a flag that is set stays set through every step but a poll
\* of the combinator that polls the child; and a poll of the combinator that
\* reaches a child whose waker was invoked polls it
C33_NoWakeLost ==
    /\ [](comb.kind # "none" =>
            /\ \A i \in Children : obs.invoked[i] => comb.wakers[i] = Some(TRUE)
            /\ \A n \in DOMAIN obs.log : obs.log[n].inv => obs.log[n].polled)
    /\ [][\A i \in Children :
              /\ comb.kind # "none"
              /\ comb.wakers[i] = Some(TRUE)
              /\ comb'.wakers[i] # Some(TRUE)
              => /\ CombPoll
                 /\ \E n \in DOMAIN obs'.log :
                       obs'.log[n].i = i /\ obs'.log[n].polled]_vars

\* a poll of a merged stream came, after another child, to a pending child
\* whose trampoline waker had been invoked, and polled it
C33_WokenChildPolledLater ==
    /\ IsMerged(comb.kind)
    /\ \E n \in DOMAIN obs.log :
          /\ n > 1
          /\ obs.log[n].prev = "Pending"
          /\ obs.log[n].inv
          /\ obs.log[n].polled

----------------------------------------------------------------------------
(* Properties of a join under the loop of the executor *)

RECURSIVE SumOf(_)
SumOf(ds) == IF ds = <<>> THEN 0 ELSE Head(ds) + SumOf(Tail(ds))

\* the time at which the branch of child i ends
BranchEnd(i) == SumOf(kids.sleeps[i])

\* the time at which the later branch ends
LaterBranch ==
    CHOOSE t \in {BranchEnd(i) : i \in Children} : \A i \in Children : BranchEnd(i) <= t

\* the entry of a Timer that waits was replaced by that of a later
\* registration under the same key, so that the waker of the Timer is never
\* invoked: the child does not become ready
EntryOverwritten ==
    \E t \in DOMAIN tm :
        /\ tm[t].timer_id # None
        /\ \E e \in timers :
              /\ Key(e) = <<tm[t].expiry, tm[t].timer_id[1]>>
              /\ e.n # tm[t].reg[1]

\* C31: under the loop of the executor a join of children that sleep, each
\* of which is awoken through its trampoline waker when its Timer expires,
\* returns Ready in the end; it returns Ready at the logical time at which
\* its later branch ends, not after the sum of the branches, and until then
\* it returns Pending; the poll that returns Ready polls a child that has
\* just completed, awoken through its trampoline waker or polled for the
\* first time
C31_JoinOfSleepsCompletes ==
    /\ \/ <>EntryOverwritten
       \/ (comb.kind = "join") ~> (xpc = "done" /\ obs.ret = "Ready")
    /\ [](comb.kind = "join" =>
            /\ obs.ret = "Ready" =>
                   /\ now = LaterBranch
                   /\ \E n \in DOMAIN obs.log :
                          /\ obs.log[n].polled
                          /\ obs.log[n].first \/ obs.log[n].inv
                          /\ BranchEnd(obs.log[n].i) = LaterBranch
            /\ now < LaterBranch => obs.ret \in {"", "Pending"})

\* the join returned Ready when the branch of two sleeps ended, later than
\* the other branch and before the sum of the branches
C31_ReadyWithLaterBranch ==
    /\ xpc = "done"
    /\ obs.ret = "Ready"
    /\ kids.sleeps[1][1] > 0
    /\ kids.sleeps[1][2] > 0
    /\ 0 < BranchEnd(0)
    /\ BranchEnd(0) < BranchEnd(1)
    /\ now = BranchEnd(1)

====
